---- MODULE Spec2Model ----
(***************************************************************************)
(* CSV bulk import of contacts: the ingestion handler startImport, the     *)
(* preview handler previewImport, the read handlers getImportStatus,       *)
(* getImportLog and downloadImportLog, and the persistent store they work  *)
(* on (contacts, import_batches, import_log_entries).                      *)
(*                                                                         *)
(* Text is modelled as a sequence of tokens: a token is a blank, a quote   *)
(* character or a run of ordinary characters.  A line is the sequence of   *)
(* its comma-separated cells, a file the sequence of its lines.            *)
(***************************************************************************)
EXTENDS Integers, Sequences, FiniteSets, TLC

\* ------------------------------------------------------------------ bounds
\* largest number of lines after the header line in an uploaded file
MaxRows == 3
\* largest number of lines after a header line other than the standard one
MaxShortRows == 1
\* rows per chunk transaction (1000 in the source, scaled down)
CHUNK_SIZE == 2
\* largest number of store statements that fail during one run
MaxFaults == 1
\* number of startImport invocations the model holds
NRuns == 2

Runs == 1..NRuns

\* ------------------------------------------------------------------ text
SP == " "
QT == "\""

\* optional / JavaScript values: null, undefined, or a string
Null == [tag |-> "null", v |-> <<>>]
Undef == [tag |-> "undef", v |-> <<>>]
Str(s) == [tag |-> "str", v |-> s]

\* String.prototype.toLowerCase on one token
LowerToken(t) ==
  CASE t = "NOMBRE" -> "nombre"
    [] t = "A@x" -> "a@x"
    [] OTHER -> t

ToLower(s) == [k \in 1..Len(s) |-> LowerToken(s[k])]

RECURSIVE TrimLeft(_)
TrimLeft(s) == IF s # <<>> /\ Head(s) = SP THEN TrimLeft(Tail(s)) ELSE s

RECURSIVE TrimRight(_)
TrimRight(s) ==
  IF s # <<>> /\ s[Len(s)] = SP THEN TrimRight(SubSeq(s, 1, Len(s) - 1)) ELSE s

\* String.prototype.trim
Trim(s) == TrimRight(TrimLeft(s))

\* val.replace(/^"|"$/g, ''): one leading and one trailing quote removed
StripOuterQuotes(s) ==
  LET a == IF s # <<>> /\ Head(s) = QT THEN Tail(s) ELSE s
  IN IF a # <<>> /\ a[Len(a)] = QT THEN SubSeq(a, 1, Len(a) - 1) ELSE a

\* v.replace(/"/g, ''): every quote removed
RemoveQuotes(s) == SelectSeq(s, LAMBDA t : t # QT)

Includes(seq, x) == \E k \in DOMAIN seq : seq[k] = x

\* a line that consists of blanks only (one cell, no comma)
IsBlankLine(line) == Len(line) = 1 /\ Trim(line[1]) = <<>>

RECURSIVE DropLeadingBlank(_)
DropLeadingBlank(ls) ==
  IF ls # <<>> /\ IsBlankLine(Head(ls)) THEN DropLeadingBlank(Tail(ls)) ELSE ls

RECURSIVE DropTrailingBlank(_)
DropTrailingBlank(ls) ==
  IF ls # <<>> /\ IsBlankLine(ls[Len(ls)])
  THEN DropTrailingBlank(SubSeq(ls, 1, Len(ls) - 1)) ELSE ls

\* csvContent.trim().split('\n'): blank lines at both ends go, the ones in
\* the middle stay; the empty text splits into one empty line
SplitLines(csvContent) ==
  LET t == DropTrailingBlank(DropLeadingBlank(csvContent))
  IN IF t = <<>> THEN << << <<>> >> >> ELSE t

\* ------------------------------------------------------------------ columns
cNombre == <<"nombre">>
cApellido == <<"apellido">>
cEmail == <<"email">>
cTelefono == <<"telefono">>

requiredColumns == <<cNombre, cApellido>>
optionalColumns == <<cEmail, cTelefono>>
validColumns == requiredColumns \o optionalColumns

\* z.string().email(): one run of ordinary characters of the address form
EmailTokens == {"a@x", "A@x", "b@x"}
IsEmail(s) == Len(s) = 1 /\ s[1] \in EmailTokens

\* csvRowSchema.safeParse: the messages of the failed rules, in field order
csvRowSchema(d) ==
  (IF d.nombre = <<>> THEN <<"Nombre es obligatorio">> ELSE <<>>)
  \o (IF d.apellido = <<>> THEN <<"Apellido es obligatorio">> ELSE <<>>)
  \o (IF d.email.tag = "str" /\ ~IsEmail(d.email.v)
      THEN <<"Email invalido">> ELSE <<>>)

\* ------------------------------------------------------------------ startImport: decoding
ImportLines(csvContent) == SplitLines(csvContent)

IsEmptyFile(lines) ==
  Len(lines) = 0 \/ (Len(lines) = 1 /\ IsBlankLine(lines[1]))

ImportHeader(lines) ==
  [k \in 1..Len(lines[1]) |-> ToLower(Trim(lines[1][k]))]

ImportDataRows(lines) == Tail(lines)

\* variant: `some` in place of `every`
HasRequiredColumns_some(header) ==
  \E k \in DOMAIN requiredColumns : Includes(header, requiredColumns[k])

HasRequiredColumns(header) ==
  \A k \in DOMAIN requiredColumns : Includes(header, requiredColumns[k])

\* row.split(',').map(val => val.trim().replace(/^"|"$/g, ''))
ImportValues(row) == [k \in 1..Len(row) |-> StripOuterQuotes(Trim(row[k]))]

\* header.forEach(...): the value under each known column the row reaches;
\* a later column of the same name overwrites an earlier one
RowData(header, values) ==
  LET Cols == {c \in {validColumns[k] : k \in DOMAIN validColumns} :
                 \E k \in DOMAIN header : header[k] = c /\ k <= Len(values)}
      Last(c) == CHOOSE k \in DOMAIN header :
                   /\ header[k] = c /\ k <= Len(values)
                   /\ \A m \in DOMAIN header :
                        (header[m] = c /\ m <= Len(values)) => m <= k
  IN [c \in Cols |-> values[Last(c)]]

Field(rowData, c) == IF c \in DOMAIN rowData THEN Str(rowData[c]) ELSE Undef

\* rowData[c] || ''
OrEmpty(x) == IF x.tag = "str" THEN x.v ELSE <<>>

\* rowData[c] === '' ? null : rowData[c]
EmptyToNull(x) == IF x.tag = "str" /\ x.v = <<>> THEN Null ELSE x

ProcessedData(rowData) ==
  [nombre |-> OrEmpty(Field(rowData, cNombre)),
   apellido |-> OrEmpty(Field(rowData, cApellido)),
   email |-> EmptyToNull(Field(rowData, cEmail)),
   telefono |-> EmptyToNull(Field(rowData, cTelefono))]

\* JSON.stringify of a plain object of strings
JSONstringify(obj) == [json |-> obj]

EmptyObject == [c \in {} |-> <<>>]

\* ------------------------------------------------------------------ previewImport: decoding
\* parseCsv: header cells trimmed and unquoted (case kept), blank lines skipped
ParseCsvHeaders(lines) ==
  [k \in 1..Len(lines[1]) |-> RemoveQuotes(Trim(lines[1][k]))]

ParseCsvLines(lines) == SelectSeq(Tail(lines), LAMBDA l : ~IsBlankLine(l))

\* rows.length of parseCsv, which is totalRows of previewImport
parseCsvCount(csvContent) == Len(ParseCsvLines(SplitLines(csvContent)))

\* ------------------------------------------------------------------ inputs
hStandard == << cNombre, cApellido, cEmail, cTelefono >>
hUpper == << <<SP, "NOMBRE">>, <<"apellido", SP>>, cEmail, cTelefono >>
hNoRequired == << cEmail, cTelefono >>
hNoApellido == << cNombre, cEmail, cTelefono >>
HeaderLines == {hStandard, hUpper, hNoRequired, hNoApellido}

lValid == << <<"Ana">>, <<"Paz">>, <<"a@x">>, <<"555">> >>
lSameEmail == << <<"Bob">>, <<"Paz">>, <<"a@x">>, <<>> >>
lSamePhone == << <<"Cy">>, <<"Paz">>, <<>>, <<"555">> >>
lInvalid == << <<>>, <<"Paz">>, <<"bad">>, <<>> >>
lBlank == << <<>> >>
DataLines == {lValid, lSameEmail, lSamePhone, lInvalid, lBlank}

SeqsUpTo(S, n) == UNION {[1..k -> S] : k \in 0..n}

\* the uploaded files: no text at all, blanks only, or a header line followed
\* by at most MaxRows lines (at most MaxShortRows under the other headers)
Contents ==
  {<<>>, << << <<SP>> >> >>}
  \cup {<<hStandard>> \o ls : ls \in SeqsUpTo(DataLines, MaxRows)}
  \cup {<<h>> \o ls : h \in HeaderLines, ls \in SeqsUpTo(DataLines, MaxShortRows)}

Contact(n, a, e, t) == [nombre |-> n, apellido |-> a, email |-> e, telefono |-> t]

\* the contacts the store holds before the first run
InitialStores ==
  { <<>>,
    << Contact(<<"Zed">>, <<"Old">>, Str(<<"a@x">>), Str(<<"999">>)),
       Contact(<<"Yan">>, <<"Old">>, Null, Str(<<"555">>)) >> }

\* ------------------------------------------------------------------ state
VARIABLES
  contacts,          \* contactsTable, committed rows in insertion order
  importBatches,     \* importBatchesTable, row k has id k
  importLogEntries,  \* importLogEntriesTable, committed rows in insertion order
  pc,                \* per run: off, start, chunk, final, done, thrown
  csv,               \* per run: the decoded csvContent
  header,            \* per run: local, the column names of the first line
  dataRows,          \* per run: local, the lines after the first
  importBatch,       \* per run: id of the batch the run created, 0 before
  successfulRecords, \* per run: local counter
  failedRecords,     \* per run: local counter
  errorLog,          \* per run: local list of "Row n: message"
  chunkIndex,        \* per run: index of the chunk being processed
  i,                 \* per run: rows of the current chunk already processed
  txContacts,        \* per run: contacts written by the open transaction
  txLog,             \* per run: log entries written by the open transaction
  result,            \* per run: the batch row returned to the caller
  faults,            \* store statements that have failed so far
  reply              \* what the last previewImport or read call gave its caller

store == <<contacts, importBatches, importLogEntries>>
parsed == <<header, dataRows>>
locals == <<successfulRecords, failedRecords, errorLog, chunkIndex, i>>
tx == <<txContacts, txLog>>
vars == <<contacts, importBatches, importLogEntries, pc, csv, header, dataRows,
          importBatch,
          successfulRecords, failedRecords, errorLog, chunkIndex, i,
          txContacts, txLog, result, faults, reply>>

\* no call has answered, or its caller has taken the answer
NoReply == [op |-> "none", arg |-> 0, ok |-> TRUE, err |-> "", body |-> <<>>]

NoBatch == [id |-> 0, filename |-> "", total_records |-> 0,
            successful_records |-> 0, failed_records |-> 0,
            status |-> "none", error_log |-> Null, completed_at |-> "null"]

InitRun ==
  /\ header = [r \in Runs |-> <<>>]
  /\ dataRows = [r \in Runs |-> <<>>]
  /\ importBatch = [r \in Runs |-> 0]
  /\ successfulRecords = [r \in Runs |-> 0]
  /\ failedRecords = [r \in Runs |-> 0]
  /\ errorLog = [r \in Runs |-> <<>>]
  /\ chunkIndex = [r \in Runs |-> 0]
  /\ i = [r \in Runs |-> 0]
  /\ txContacts = [r \in Runs |-> <<>>]
  /\ txLog = [r \in Runs |-> <<>>]
  /\ result = [r \in Runs |-> NoBatch]
  /\ faults = 0
  /\ reply = NoReply

\* one startImport call on a store that holds no batch yet
Init ==
  /\ contacts \in InitialStores
  /\ importBatches = <<>>
  /\ importLogEntries = <<>>
  /\ \E c \in Contents : csv = [r \in Runs |-> IF r = 1 THEN c ELSE <<>>]
  /\ pc = [r \in Runs |-> IF r = 1 THEN "start" ELSE "off"]
  /\ InitRun

\* ------------------------------------------------------------------ startImport
Lines(r) == ImportLines(csv[r])

Min(a, b) == IF a < b THEN a ELSE b

\* chunks.push(dataRows.slice(i, i + CHUNK_SIZE))
NumChunks(n) == (n + CHUNK_SIZE - 1) \div CHUNK_SIZE
\* variant: a chunk runs one row into the next one
Chunk_overlap(rows, k) ==
  SubSeq(rows, k * CHUNK_SIZE + 1, Min((k + 1) * CHUNK_SIZE + 1, Len(rows)))

Chunk(rows, k) ==
  SubSeq(rows, k * CHUNK_SIZE + 1, Min((k + 1) * CHUNK_SIZE, Len(rows)))

Accepted(r) ==
  ~IsEmptyFile(Lines(r)) /\ HasRequiredColumns(ImportHeader(Lines(r)))

\* lines 16-32: the file is empty or lacks a mandatory column; the call
\* throws before it touches the store
StartReject(r) ==
  /\ pc[r] = "start"
  /\ ~Accepted(r)
  /\ pc' = [pc EXCEPT ![r] = "thrown"]
  /\ UNCHANGED <<store, csv, reply, parsed, importBatch, locals, tx, result, faults>>

\* variant: status left to the column default
NewBatch_default(id, total) ==
  [id |-> id, filename |-> "file.csv", total_records |-> total,
   successful_records |-> 0, failed_records |-> 0,
   status |-> "pending", error_log |-> Null, completed_at |-> "null"]

NewBatch(id, total) ==
  [id |-> id, filename |-> "file.csv", total_records |-> total,
   successful_records |-> 0, failed_records |-> 0,
   status |-> "processing", error_log |-> Null, completed_at |-> "null"]

\* lines 34-54: insert the batch row, reset the counters, cut the chunks
StartCreate(r) ==
  /\ pc[r] = "start"
  /\ Accepted(r)
  /\ header' = [header EXCEPT ![r] = ImportHeader(Lines(r))]
  /\ dataRows' = [dataRows EXCEPT ![r] = ImportDataRows(Lines(r))]
  /\ importBatches' =
       Append(importBatches,
              NewBatch(Len(importBatches) + 1, Len(ImportDataRows(Lines(r)))))
  /\ importBatch' = [importBatch EXCEPT ![r] = Len(importBatches) + 1]
  /\ successfulRecords' = [successfulRecords EXCEPT ![r] = 0]
  /\ failedRecords' = [failedRecords EXCEPT ![r] = 0]
  /\ errorLog' = [errorLog EXCEPT ![r] = <<>>]
  /\ chunkIndex' = [chunkIndex EXCEPT ![r] = 0]
  /\ i' = [i EXCEPT ![r] = 0]
  /\ pc' = [pc EXCEPT ![r] = IF NumChunks(Len(ImportDataRows(Lines(r)))) = 0
                             THEN "final" ELSE "chunk"]
  /\ UNCHANGED <<contacts, importLogEntries, csv, reply, tx, result, faults>>

\* lines 35-42 when the insert of the batch row fails: the call throws
StartFault(r) ==
  /\ pc[r] = "start"
  /\ Accepted(r)
  /\ faults < MaxFaults
  /\ faults' = faults + 1
  /\ pc' = [pc EXCEPT ![r] = "thrown"]
  /\ UNCHANGED <<store, csv, reply, parsed, importBatch, locals, tx, result>>

\* ------------------------------------------------------------------ one data row
LogEntry(b, n, st, msg, raw) ==
  [import_batch_id |-> b, row_number |-> n, status |-> st,
   error_message |-> msg, raw_data |-> raw]

NoMessage == [kind |-> "null", field |-> "", value |-> Null, errors |-> <<>>]
\* `Validation failed: ${errors}`
ValidationMessage(errs) ==
  [kind |-> "validation", field |-> "", value |-> Null, errors |-> errs]
\* `Duplicate ${duplicateField}: ${validData[duplicateField]}`
DuplicateMessage(f, val) ==
  [kind |-> "duplicate", field |-> f, value |-> val, errors |-> <<>>]
\* error.message of a failed store statement
ExceptionMessage ==
  [kind |-> "exception", field |-> "", value |-> Null, errors |-> <<>>]

\* a column left undefined in the insert takes the column default, null
ToColumn(x) == IF x.tag = "undef" THEN Null ELSE x

\* variant: the query runs on db, outside the transaction
View_db(r) == contacts

\* variant: the query also reads what the other transactions have not
\* committed yet
View_dirty(r) ==
  contacts \o txContacts[r]
  \o txContacts[CHOOSE q \in Runs : q # r /\ \A p \in Runs : p # r => q <= p]

\* rows the transaction of run r reads: committed rows and its own writes
View(r) == contacts \o txContacts[r]

\* variant: the row number restarts in every chunk
RowIndex_inChunk(r) == i[r] + 1

\* lines 60-61: the row the run handles next and its 1-based number
RowIndex(r) == chunkIndex[r] * CHUNK_SIZE + i[r] + 1
CurrentChunk(r) == Chunk(dataRows[r], chunkIndex[r])
CurrentRow(r) == CurrentChunk(r)[i[r] + 1]

\* lines 65-80
RowDataOf(r, row) == RowData(header[r], ImportValues(row))
ValidDataOf(r, row) == ProcessedData(RowDataOf(r, row))

\* variant: the query compares the phone only
ExistingContacts_phone(view, d) ==
  SelectSeq(view, LAMBDA c : d.telefono.tag = "str" /\ c.telefono = d.telefono)

\* lines 104-116: the contacts the duplicate query returns
ExistingContacts(view, d) ==
  SelectSeq(view, LAMBDA c :
    \/ d.email.tag = "str" /\ c.email = d.email
    \/ d.telefono.tag = "str" /\ c.telefono = d.telefono)

\* variant: the query is made for rows that carry an email only
HasDuplicateConditions_email(d) == d.email.tag = "str"

HasDuplicateConditions(d) == d.email.tag = "str" \/ d.telefono.tag = "str"

\* line 119
DuplicateField(existing, d) ==
  IF \E k \in DOMAIN existing : existing[k].email = d.email
  THEN "email" ELSE "telefono"

\* variant: the row is not validated before it is inserted
RowPath_unchecked(r) ==
  LET d == ValidDataOf(r, CurrentRow(r))
  IN IF HasDuplicateConditions(d) /\ ExistingContacts(View(r), d) # <<>>
     THEN "duplicate"
     ELSE "insert"

\* the branch the row takes when no statement fails
RowPath(r) ==
  LET d == ValidDataOf(r, CurrentRow(r))
  IN IF csvRowSchema(d) # <<>> THEN "invalid"
     ELSE IF HasDuplicateConditions(d) /\ ExistingContacts(View(r), d) # <<>>
          THEN "duplicate"
          ELSE "insert"

\* the store statements of each branch, in program order
PathStatements(r) ==
  LET d == ValidDataOf(r, CurrentRow(r))
  IN CASE RowPath(r) = "invalid" -> <<"log">>
       [] RowPath(r) = "duplicate" -> <<"select", "log">>
       [] OTHER -> (IF HasDuplicateConditions(d) THEN <<"select">> ELSE <<>>)
                   \o <<"insert", "log">>

\* lines 85-96 and 118-129: the entry a rejected row gets
RejectEntry(r) ==
  LET row == CurrentRow(r)
      d == ValidDataOf(r, row)
      f == DuplicateField(ExistingContacts(View(r), d), d)
  IN LogEntry(importBatch[r], RowIndex(r), "error",
              IF RowPath(r) = "invalid"
              THEN ValidationMessage(csvRowSchema(d))
              ELSE DuplicateMessage(f, IF f = "email" THEN d.email ELSE d.telefono),
              JSONstringify(RowDataOf(r, row)))

\* lines 146-152
SuccessEntry(r) ==
  LogEntry(importBatch[r], RowIndex(r), "success", NoMessage,
           JSONstringify(RowDataOf(r, CurrentRow(r))))

\* lines 160-166
CatchEntry(r) ==
  LogEntry(importBatch[r], RowIndex(r), "error", ExceptionMessage,
           JSONstringify(EmptyObject))

\* lines 136-141
NewContact(r) ==
  LET d == ValidDataOf(r, CurrentRow(r))
  IN Contact(d.nombre, d.apellido, ToColumn(d.email), ToColumn(d.telefono))

AtRow(r) == pc[r] = "chunk" /\ i[r] < Len(CurrentChunk(r))

\* variant: the log entries are written through db, not through tx
ProcessRow_db(r) ==
  /\ AtRow(r)
  /\ IF RowPath(r) = "insert"
     THEN /\ txContacts' = [txContacts EXCEPT ![r] = Append(@, NewContact(r))]
          /\ successfulRecords' = [successfulRecords EXCEPT ![r] = @ + 1]
          /\ importLogEntries' = Append(importLogEntries, SuccessEntry(r))
          /\ UNCHANGED failedRecords
     ELSE /\ failedRecords' = [failedRecords EXCEPT ![r] = @ + 1]
          /\ importLogEntries' = Append(importLogEntries, RejectEntry(r))
          /\ UNCHANGED <<txContacts, successfulRecords>>
  /\ i' = [i EXCEPT ![r] = @ + 1]
  /\ UNCHANGED <<contacts, importBatches, txLog, pc, csv, reply, parsed, importBatch,
                 errorLog, chunkIndex, result, faults>>

\* lines 63-153, no statement fails: the row is rejected with an entry, or
\* inserted with a success entry
ProcessRow(r) ==
  /\ AtRow(r)
  /\ IF RowPath(r) = "insert"
     THEN /\ txContacts' = [txContacts EXCEPT ![r] = Append(@, NewContact(r))]
          /\ successfulRecords' = [successfulRecords EXCEPT ![r] = @ + 1]
          /\ txLog' = [txLog EXCEPT ![r] = Append(@, SuccessEntry(r))]
          /\ UNCHANGED failedRecords
     ELSE /\ failedRecords' = [failedRecords EXCEPT ![r] = @ + 1]
          /\ txLog' = [txLog EXCEPT ![r] = Append(@, RejectEntry(r))]
          /\ UNCHANGED <<txContacts, successfulRecords>>
  /\ i' = [i EXCEPT ![r] = @ + 1]
  /\ UNCHANGED <<store, pc, csv, reply, parsed, importBatch, errorLog, chunkIndex,
                 result, faults>>

\* the effects of the try block up to the statement that throws (s): the
\* counter of a rejected row is already incremented when its log insert
\* throws, and so are the contact and the success counter of an inserted row
BeforeThrow(r, s) ==
  [failed |-> IF s = "log" /\ RowPath(r) # "insert" THEN 1 ELSE 0,
   successful |-> IF s = "log" /\ RowPath(r) = "insert" THEN 1 ELSE 0,
   inserted |-> IF s = "log" /\ RowPath(r) = "insert"
                THEN <<NewContact(r)>> ELSE <<>>]

\* lines 154-166: statement s of the row throws, the catch block counts the
\* row as failed, notes the message and writes its own entry
ProcessRowCaught(r, s) ==
  /\ AtRow(r)
  /\ Includes(PathStatements(r), s)
  /\ faults < MaxFaults
  /\ faults' = faults + 1
  /\ LET b == BeforeThrow(r, s)
     IN /\ txContacts' = [txContacts EXCEPT ![r] = @ \o b.inserted]
        /\ successfulRecords' = [successfulRecords EXCEPT ![r] = @ + b.successful]
        /\ failedRecords' = [failedRecords EXCEPT ![r] = @ + b.failed + 1]
  /\ errorLog' = [errorLog EXCEPT ![r] = Append(@, RowIndex(r))]
  /\ txLog' = [txLog EXCEPT ![r] = Append(@, CatchEntry(r))]
  /\ i' = [i EXCEPT ![r] = @ + 1]
  /\ UNCHANGED <<store, pc, csv, reply, parsed, importBatch, chunkIndex, result>>

\* lines 160-169 and 190-193: statement s throws and the insert of the catch
\* block throws as well (as every statement does once the transaction is
\* aborted); the exception leaves the callback, the transaction is rolled
\* back and startImport rethrows
ProcessRowThrows(r, s) ==
  /\ AtRow(r)
  /\ Includes(PathStatements(r), s)
  /\ faults < MaxFaults
  /\ faults' = faults + 1
  /\ LET b == BeforeThrow(r, s)
     IN /\ successfulRecords' = [successfulRecords EXCEPT ![r] = @ + b.successful]
        /\ failedRecords' = [failedRecords EXCEPT ![r] = @ + b.failed + 1]
  /\ errorLog' = [errorLog EXCEPT ![r] = Append(@, RowIndex(r))]
  /\ txContacts' = [txContacts EXCEPT ![r] = <<>>]
  /\ txLog' = [txLog EXCEPT ![r] = <<>>]
  /\ pc' = [pc EXCEPT ![r] = "thrown"]
  /\ UNCHANGED <<store, csv, reply, parsed, importBatch, chunkIndex, i, result>>

\* line 169: the callback of chunk chunkIndex returns and the transaction
\* commits all its writes at once; the loop goes on to the next chunk
CommitChunk(r) ==
  /\ pc[r] = "chunk"
  /\ i[r] = Len(CurrentChunk(r))
  /\ contacts' = contacts \o txContacts[r]
  /\ importLogEntries' = importLogEntries \o txLog[r]
  /\ txContacts' = [txContacts EXCEPT ![r] = <<>>]
  /\ txLog' = [txLog EXCEPT ![r] = <<>>]
  /\ chunkIndex' = [chunkIndex EXCEPT ![r] = @ + 1]
  /\ i' = [i EXCEPT ![r] = 0]
  /\ pc' = [pc EXCEPT ![r] =
              IF chunkIndex[r] + 1 < NumChunks(Len(dataRows[r]))
              THEN "chunk" ELSE "final"]
  /\ UNCHANGED <<importBatches, csv, reply, parsed, importBatch, successfulRecords,
                 failedRecords, errorLog, result, faults>>

\* line 169 when the commit fails: nothing of the chunk is kept and
\* startImport rethrows
CommitFails(r) ==
  /\ pc[r] = "chunk"
  /\ i[r] = Len(CurrentChunk(r))
  /\ faults < MaxFaults
  /\ faults' = faults + 1
  /\ txContacts' = [txContacts EXCEPT ![r] = <<>>]
  /\ txLog' = [txLog EXCEPT ![r] = <<>>]
  /\ pc' = [pc EXCEPT ![r] = "thrown"]
  /\ UNCHANGED <<store, csv, reply, parsed, importBatch, locals, result>>

\* variant: any failed row fails the batch
FinalStatus_strict(successful, failed) ==
  IF failed = 0 THEN "completed" ELSE "failed"

\* line 173
FinalStatus(successful, failed) ==
  IF failed = 0 THEN "completed"
  ELSE IF successful = 0 THEN "failed" ELSE "completed"

\* line 174
FinalErrorLog(log) == IF Len(log) > 0 THEN [tag |-> "str", v |-> log] ELSE Null

\* lines 172-188: the one update of the batch row, returned to the caller
Finalize(r) ==
  /\ pc[r] = "final"
  /\ LET updated ==
           [importBatches[importBatch[r]] EXCEPT
              !.successful_records = successfulRecords[r],
              !.failed_records = failedRecords[r],
              !.status = FinalStatus(successfulRecords[r], failedRecords[r]),
              !.error_log = FinalErrorLog(errorLog[r]),
              !.completed_at = "date"]
     IN /\ importBatches' = [importBatches EXCEPT ![importBatch[r]] = updated]
        /\ result' = [result EXCEPT ![r] = updated]
  /\ pc' = [pc EXCEPT ![r] = "done"]
  /\ UNCHANGED <<contacts, importLogEntries, csv, reply, parsed, importBatch, locals,
                 tx, faults>>

\* lines 176-186 when the update fails: startImport rethrows
FinalizeFails(r) ==
  /\ pc[r] = "final"
  /\ faults < MaxFaults
  /\ faults' = faults + 1
  /\ pc' = [pc EXCEPT ![r] = "thrown"]
  /\ UNCHANGED <<store, csv, reply, parsed, importBatch, locals, tx, result>>

Statements == {"select", "insert", "log"}

Next ==
  \E r \in Runs :
    \/ StartReject(r)
    \/ StartCreate(r)
    \/ StartFault(r)
    \/ ProcessRow(r)
    \/ \E s \in Statements : ProcessRowCaught(r, s)
    \/ \E s \in Statements : ProcessRowThrows(r, s)
    \/ CommitChunk(r)
    \/ CommitFails(r)
    \/ Finalize(r)
    \/ FinalizeFails(r)

Spec == Init /\ [][Next]_vars

\* ------------------------------------------------------------------ properties
Terminal(b) == b.status \in {"completed", "failed"}

\* the step is run r handling the row it stands at
RowStep(r) == AtRow(r) /\ (i'[r] = i[r] + 1 \/ pc'[r] = "thrown")

\* what the transaction of run r holds and reads, written out
Visible(r) == contacts \o txContacts[r]
LoggedBy(r) == importLogEntries \o txLog[r]

ContactOf(d) == Contact(d.nombre, d.apellido, ToColumn(d.email), ToColumn(d.telefono))

\* C1: every batch in a terminal status has successful_records +
\* failed_records = total_records, also when a store write fails while a
\* row is processed.  (Refuted: a log insert that throws after the counter
\* was incremented makes the catch block count the row a second time.)
C1_CountersAddUp ==
  \A k \in DOMAIN importBatches :
    Terminal(importBatches[k]) =>
      importBatches[k].successful_records + importBatches[k].failed_records
        = importBatches[k].total_records

\* a valid row m before the current one carries the current row's email or
\* phone and its contact has been inserted
DuplicateOfEarlier(r) ==
  LET d == ValidDataOf(r, CurrentRow(r))
  IN /\ csvRowSchema(d) = <<>>
     /\ \E m \in 1..(RowIndex(r) - 1) :
          LET dm == ValidDataOf(r, dataRows[r][m])
          IN /\ csvRowSchema(dm) = <<>>
             /\ \/ d.email.tag = "str" /\ dm.email = d.email
                \/ d.telefono.tag = "str" /\ dm.telefono = d.telefono
             /\ Includes(Visible(r), ContactOf(dm))

\* the step appends exactly entry e to the log of run r's transaction
Logs(r, e) == txLog'[r] = Append(txLog[r], e)

\* C2: within one run, a valid row that repeats the email or the phone of an
\* earlier row whose contact was inserted is not inserted itself, in the same
\* chunk or in a later one; it gets one 'error' entry, which carries a
\* Duplicate message whenever no store statement fails on that row.
C2_LaterOccurrenceRejected ==
  [][\A r \in Runs :
       (RowStep(r) /\ DuplicateOfEarlier(r)) =>
         /\ contacts' = contacts
         /\ txContacts'[r] \in {txContacts[r], <<>>}
         /\ successfulRecords'[r] = successfulRecords[r]
         /\ i'[r] = i[r] + 1 =>
              /\ Len(txLog'[r]) = Len(txLog[r]) + 1
              /\ txLog'[r][Len(txLog'[r])].row_number = RowIndex(r)
              /\ txLog'[r][Len(txLog'[r])].status = "error"
              /\ faults' = faults =>
                   txLog'[r][Len(txLog'[r])].error_message.kind = "duplicate"
    ]_vars

\* rows 1 and 2 (same chunk) and rows 1 and 3 (different chunks): the store
\* was empty, row 1 went in, rows 2 and 3 were rejected as duplicates
C2_Witness ==
  /\ contacts \o txContacts[1] = <<ContactOf(ValidDataOf(1, lValid))>>
  /\ header[1] = hStandard
  /\ \E a, b, c \in DOMAIN LoggedBy(1) :
       /\ LoggedBy(1)[a].row_number = 1 /\ LoggedBy(1)[a].status = "success"
       /\ LoggedBy(1)[b].row_number = 2
       /\ LoggedBy(1)[b].error_message.kind = "duplicate"
       /\ LoggedBy(1)[c].row_number = 3
       /\ LoggedBy(1)[c].error_message.kind = "duplicate"

CountEmail(cs, e) == Cardinality({k \in DOMAIN cs : cs[k].email = e})

\* the current row is valid and its email is the email of a committed contact
EmailInStore(r) ==
  LET d == ValidDataOf(r, CurrentRow(r))
  IN /\ csvRowSchema(d) = <<>>
     /\ d.email.tag = "str"
     /\ \E k \in DOMAIN contacts : contacts[k].email = d.email

\* C3: a valid row whose email is the email of a contact in the store is not
\* inserted; when no store statement fails on the row it gets exactly one
\* 'error' entry that names the email field and failedRecords grows by one;
\* the number of stored contacts with an email already present never changes.
C3_StoreEmailCollision ==
  [][/\ \A r \in Runs :
          (RowStep(r) /\ EmailInStore(r)) =>
            /\ contacts' = contacts
            /\ txContacts'[r] \in {txContacts[r], <<>>}
            /\ faults' = faults =>
                 /\ Logs(r, LogEntry(importBatch[r], RowIndex(r), "error",
                           DuplicateMessage("email",
                             ValidDataOf(r, CurrentRow(r)).email),
                           JSONstringify(RowDataOf(r, CurrentRow(r)))))
                 /\ failedRecords'[r] = failedRecords[r] + 1
                 /\ successfulRecords'[r] = successfulRecords[r]
     /\ \A k \in DOMAIN contacts :
          contacts[k].email.tag = "str" =>
            CountEmail(contacts', contacts[k].email)
              = CountEmail(contacts, contacts[k].email)
    ]_vars

\* the run is over, the stored contact with a@x is still the only one, and
\* a row of the file was logged as a duplicate email
C3_Witness ==
  /\ pc[1] = "done"
  /\ CountEmail(contacts, Str(<<"a@x">>)) = 1
  /\ contacts[1].nombre = <<"Zed">>
  /\ result[1].failed_records >= 1
  /\ \E k \in DOMAIN importLogEntries :
       /\ importLogEntries[k].status = "error"
       /\ importLogEntries[k].error_message =
            DuplicateMessage("email", Str(<<"a@x">>))

\* the file is empty or blank, or no cell of its first line is nombre, or
\* none is apellido (trimmed, case ignored)
Rejectable(c) ==
  LET ls == SplitLines(c)
  IN \/ \A k \in DOMAIN ls : IsBlankLine(ls[k])
     \/ \E col \in {cNombre, cApellido} :
          \A k \in DOMAIN ls[1] : ToLower(Trim(ls[1][k])) # col

\* C4: on an empty or blank file, or a header line without nombre or without
\* apellido, startImport throws and creates no batch, no log entry and no
\* contact.
C4_RejectedFileLeavesStore ==
  [][\A r \in Runs :
       (pc[r] = "start" /\ Rejectable(csv[r]) /\ pc'[r] # pc[r]) =>
         /\ pc'[r] = "thrown"
         /\ importBatch'[r] = 0
         /\ contacts' = contacts
         /\ importBatches' = importBatches
         /\ importLogEntries' = importLogEntries
    ]_vars

\* a file with a header line that lacks apellido and one data line was
\* rejected without a store failure
C4_Witness ==
  /\ pc[1] = "thrown"
  /\ faults = 0
  /\ Len(csv[1]) = 2
  /\ csv[1][1] = hNoApellido
  /\ importBatches = <<>>

\* C5: a store statement that fails while a row is processed is not fatal:
\* the row ends with one 'error' entry carrying the exception message and
\* failedRecords + 1, the message joins the batch-level list, and the run
\* goes on with the next row.  (Refuted: when the insert of the catch block
\* fails too the run throws; when the failed statement is a log insert the
\* row is counted twice.)
C5_RowFailureNotFatal ==
  [][\A r \in Runs :
       (RowStep(r) /\ faults' # faults) =>
         /\ pc'[r] = "chunk"
         /\ i'[r] = i[r] + 1
         /\ Logs(r, CatchEntry(r))
         /\ errorLog'[r] = Append(errorLog[r], RowIndex(r))
         /\ successfulRecords'[r] + failedRecords'[r]
              = successfulRecords[r] + failedRecords[r] + 1
         /\ failedRecords'[r] = failedRecords[r] + 1
    ]_vars

\* row numbers of the committed log entries of batch b
CommittedRows(b) ==
  {importLogEntries[k].row_number :
     k \in {j \in DOMAIN importLogEntries :
              importLogEntries[j].import_batch_id = b}}

EntriesOf(b) ==
  SelectSeq(importLogEntries, LAMBDA e : e.import_batch_id = b)

\* the committed entries of every batch are those of its first k chunks,
\* all rows of each, for some k
WholeChunksOnly ==
  \A r \in Runs :
    importBatch[r] # 0 =>
      \E k \in 0..NumChunks(Len(dataRows[r])) :
        /\ CommittedRows(importBatch[r])
             = 1..Min(k * CHUNK_SIZE, Len(dataRows[r]))
        /\ Len(EntriesOf(importBatch[r]))
             = Min(k * CHUNK_SIZE, Len(dataRows[r]))

\* contacts and log entries reach the store only together, as everything
\* one chunk produced
CommittedTogether ==
  (contacts' # contacts \/ importLogEntries' # importLogEntries) =>
    \E r \in Runs :
      /\ pc[r] = "chunk"
      /\ Len(txLog[r]) = Len(CurrentChunk(r))
      /\ \A k \in DOMAIN txLog[r] :
           txLog[r][k].row_number = chunkIndex[r] * CHUNK_SIZE + k
      /\ contacts' = contacts \o txContacts[r]
      /\ importLogEntries' = importLogEntries \o txLog[r]

\* a run that throws out of a chunk leaves the committed rows as they were
RollbackKeepsEarlier ==
  \A r \in Runs :
    (pc[r] = "chunk" /\ pc'[r] = "thrown") =>
      /\ contacts' = contacts
      /\ importLogEntries' = importLogEntries
      /\ txContacts'[r] = <<>>
      /\ txLog'[r] = <<>>

\* C6: each chunk is atomic: the committed store holds, of every chunk,
\* all contacts and log entries of its rows or none; a chunk that is rolled
\* back leaves what earlier chunks committed.
C6_ChunkAtomic ==
  []WholeChunksOnly /\ [][CommittedTogether /\ RollbackKeepsEarlier]_vars

\* the first chunk is committed with a contact, the second was rolled back
C6_Witness ==
  /\ pc[1] = "thrown"
  /\ chunkIndex[1] = 1
  /\ Len(importLogEntries) = CHUNK_SIZE
  /\ Len(contacts) = 1
  /\ importLogEntries[1].status = "success"
  /\ Len(dataRows[1]) > CHUNK_SIZE

\* no two entries written by run r, committed or not, name the same row
NoRowTwice ==
  \A r \in Runs :
    \A a, b \in DOMAIN LoggedBy(r) :
      (/\ LoggedBy(r)[a].import_batch_id = LoggedBy(r)[b].import_batch_id
       /\ LoggedBy(r)[a].row_number = LoggedBy(r)[b].row_number) => a = b

\* the batch startImport returns has one committed entry per row 1..N
AllRowsLogged ==
  \A r \in Runs :
    pc[r] = "done" =>
      /\ Terminal(result[r])
      /\ Len(EntriesOf(result[r].id)) = result[r].total_records
      /\ CommittedRows(result[r].id) = 1..result[r].total_records

\* committed entries are only ever appended to
AppendOnly ==
  /\ Len(importLogEntries') >= Len(importLogEntries)
  /\ SubSeq(importLogEntries', 1, Len(importLogEntries)) = importLogEntries

\* C7: a terminal batch returned with total_records = N has exactly N log
\* entries, numbered 1..N, each once; a log entry is never updated or
\* deleted and no row is logged twice.
C7_OneEntryPerRow ==
  [](NoRowTwice /\ AllRowsLogged) /\ [][AppendOnly]_vars

\* a run over three rows in two chunks returned, one row went through the
\* catch block
C7_Witness ==
  /\ pc[1] = "done"
  /\ result[1].total_records = 3
  /\ Len(importLogEntries) = 3
  /\ faults = 1
  /\ \E k \in DOMAIN importLogEntries :
       importLogEntries[k].error_message.kind = "exception"

BatchStatusOk ==
  \A k \in DOMAIN importBatches :
    /\ importBatches[k].status \in {"processing", "completed", "failed"}
    /\ importBatches[k].completed_at = "null"
         <=> importBatches[k].status = "processing"

BatchUpdatedOnce ==
  /\ Len(importBatches') >= Len(importBatches)
  /\ \A k \in DOMAIN importBatches' :
       IF k \in DOMAIN importBatches
       THEN importBatches'[k] # importBatches[k] =>
              /\ importBatches[k].status = "processing"
              /\ Terminal(importBatches'[k])
              /\ importBatches'[k].completed_at = "date"
       ELSE importBatches'[k].status = "processing"

\* C8: a batch is created 'processing' and changes at most once, into
\* 'completed' or 'failed' with completed_at set; it is never 'pending',
\* never changes once terminal, and completed_at is null exactly while the
\* status is 'processing'.
C8_BatchLifecycle ==
  []BatchStatusOk /\ [][BatchUpdatedOnce]_vars

\* a batch with rows was closed as completed
C8_Witness ==
  \E k \in DOMAIN importBatches :
    /\ importBatches[k].status = "completed"
    /\ importBatches[k].completed_at = "date"
    /\ importBatches[k].total_records >= 2

\* C9: the final status is 'failed' exactly when successful_records = 0 and
\* failed_records > 0, and 'completed' in every other case.
C9_FinalStatus ==
  \A k \in DOMAIN importBatches :
    importBatches[k].status # "processing" =>
      IF importBatches[k].successful_records = 0
           /\ importBatches[k].failed_records > 0
      THEN importBatches[k].status = "failed"
      ELSE importBatches[k].status = "completed"

\* a batch whose rows failed one and all, and a mixed one closed as
\* completed, are both reachable; this is the former
C9_Witness ==
  \E k \in DOMAIN importBatches :
    /\ importBatches[k].status = "failed"
    /\ importBatches[k].failed_records = 2
    /\ importBatches[k].total_records = 2

\* C10: totalRows of previewImport equals total_records of the batch that
\* startImport creates from the same content, blank lines between data rows
\* included.  (Refuted: startImport counts a blank line as a data row.)
C10_SameRowCount ==
  \A r \in Runs :
    importBatch[r] # 0 =>
      importBatches[importBatch[r]].total_records = parseCsvCount(csv[r])

\* ------------------------------------------------------------------ previewImport
\* what the call op(arg) gives its caller: the value body, or the error err
Reply(op, arg, err, body) ==
  [op |-> op, arg |-> arg, ok |-> err = "", err |-> err, body |-> body]

\* line.split(',').map(v => v.trim().replace(/"/g, ''))
ParseCsvValues(line) == [k \in 1..Len(line) |-> RemoveQuotes(Trim(line[k]))]

\* row[headers[j]] = values[j] || '' for every header cell, a later cell of
\* the same name overwriting an earlier one
ParseCsvRow(headers, line) ==
  LET values == ParseCsvValues(line)
      Last(h) == CHOOSE k \in DOMAIN headers :
                   headers[k] = h /\ \A m \in DOMAIN headers : headers[m] = h => m <= k
  IN [h \in {headers[k] : k \in DOMAIN headers} |->
        IF Last(h) <= Len(values) THEN values[Last(h)] ELSE <<>>]

parseCsv(csvContent) ==
  LET lines == SplitLines(csvContent)
      kept == ParseCsvLines(lines)
  IN [k \in 1..Len(kept) |-> ParseCsvRow(ParseCsvHeaders(lines), kept[k])]

Raw(rawRow, c) == IF c \in DOMAIN rawRow THEN Str(rawRow[c]) ELSE Undef

\* rawRow[c]?.trim() || ''
TrimOrEmpty(x) == IF x.tag = "str" THEN Trim(x.v) ELSE <<>>

\* rawRow[c]?.trim() || null
TrimOrNull(x) ==
  IF x.tag = "str" /\ Trim(x.v) # <<>> THEN Str(Trim(x.v)) ELSE Null

CleanedRow(rawRow) ==
  [nombre |-> TrimOrEmpty(Raw(rawRow, cNombre)),
   apellido |-> TrimOrEmpty(Raw(rawRow, cApellido)),
   email |-> TrimOrNull(Raw(rawRow, cEmail)),
   telefono |-> TrimOrNull(Raw(rawRow, cTelefono))]

Indices(n) == [k \in 1..n |-> k]

\* the rows that pass csvRowSchema, with their 1-based position among the
\* parsed rows
ValidRows(rows) ==
  LET ok == SelectSeq(Indices(Len(rows)),
                      LAMBDA k : csvRowSchema(CleanedRow(rows[k])) = <<>>)
  IN [j \in DOMAIN ok |-> [rowNumber |-> ok[j], data |-> CleanedRow(rows[ok[j]])]]

InvalidRows(rows) ==
  LET bad == SelectSeq(Indices(Len(rows)),
                       LAMBDA k : csvRowSchema(CleanedRow(rows[k])) # <<>>)
  IN [j \in DOMAIN bad |->
        [rowNumber |-> bad[j], errors |-> csvRowSchema(CleanedRow(rows[bad[j]])),
         data |-> rows[bad[j]]]]

\* row.data.email is truthy
HasEmail(row) == row.data.email.tag = "str" /\ row.data.email.v # <<>>
HasPhone(row) == row.data.telefono.tag = "str" /\ row.data.telefono.v # <<>>

\* variant: the address is the key as it is written
EmailKey_exact(row) == row.data.email.v

\* row.data.email.toLowerCase(), row.data.telefono
EmailKey(row) == ToLower(row.data.email.v)
PhoneKey(row) == row.data.telefono.v

\* the two scans differ in the field they read
HasKey(row, f) == IF f = "email" THEN HasEmail(row) ELSE HasPhone(row)
KeyOf(row, f) == IF f = "email" THEN EmailKey(row) ELSE PhoneKey(row)

RowNumbersOf(validRows, f, key) ==
  LET hit == SelectSeq(validRows, LAMBDA row : HasKey(row, f) /\ KeyOf(row, f) = key)
  IN [j \in DOMAIN hit |-> hit[j].rowNumber]

\* the keys of the Map in the order of their first row
FirstRows(validRows, f) ==
  SelectSeq(Indices(Len(validRows)),
            LAMBDA k : /\ HasKey(validRows[k], f)
                       /\ \A m \in 1..(k - 1) :
                            ~(/\ HasKey(validRows[m], f)
                              /\ KeyOf(validRows[m], f) = KeyOf(validRows[k], f)))

\* the groups of more than one row, in Map order
DuplicateGroups(validRows, f) ==
  LET first == FirstRows(validRows, f)
      groups == [j \in DOMAIN first |->
                   [key |-> KeyOf(validRows[first[j]], f),
                    rowNumbers |-> RowNumbersOf(validRows, f,
                                                KeyOf(validRows[first[j]], f))]]
  IN SelectSeq(groups, LAMBDA g : Len(g.rowNumbers) > 1)

findDuplicateEmails(validRows) == DuplicateGroups(validRows, "email")

findDuplicatePhones(validRows) == DuplicateGroups(validRows, "telefono")

\* checkDatabaseDuplicates: the values the stored contacts are asked for
EmailsToCheck(validRows) ==
  {ToLower(validRows[k].data.email.v) : k \in {m \in DOMAIN validRows : HasEmail(validRows[m])}}
PhonesToCheck(validRows) ==
  {validRows[k].data.telefono.v : k \in {m \in DOMAIN validRows : HasPhone(validRows[m])}}

\* db.select(...).where(or(eq(email, e)..., eq(telefono, p)...))
PreviewExisting(db, validRows) ==
  SelectSeq(db, LAMBDA c :
    \/ c.email.tag = "str" /\ c.email.v \in EmailsToCheck(validRows)
    \/ c.telefono.tag = "str" /\ c.telefono.v \in PhonesToCheck(validRows))

ExistingEmails(existing) ==
  {ToLower(existing[k].email.v) :
     k \in {m \in DOMAIN existing :
              existing[m].email.tag = "str" /\ existing[m].email.v # <<>>}}
ExistingPhones(existing) ==
  {existing[k].telefono.v :
     k \in {m \in DOMAIN existing :
              existing[m].telefono.tag = "str" /\ existing[m].telefono.v # <<>>}}

\* validRows.forEach: a row whose value a stored contact has joins the group
\* of that value, or opens a group of its own
RECURSIVE MergeStored(_, _, _, _)
MergeStored(groups, rows, f, stored) ==
  IF rows = <<>> THEN groups
  ELSE LET row == Head(rows)
           at == {j \in DOMAIN groups : groups[j].key = KeyOf(row, f)}
           first == CHOOSE j \in at : \A m \in at : j <= m
           step ==
             IF HasKey(row, f) /\ KeyOf(row, f) \in stored
             THEN IF at # {}
                  THEN [groups EXCEPT ![first].rowNumbers =
                          IF Includes(@, row.rowNumber) THEN @
                          ELSE Append(@, row.rowNumber)]
                  ELSE Append(groups, [key |-> KeyOf(row, f),
                                       rowNumbers |-> <<row.rowNumber>>])
             ELSE groups
       IN MergeStored(step, Tail(rows), f, stored)

\* the select of checkDatabaseDuplicates is issued
PreviewSelects(csvContent) ==
  LET validRows == ValidRows(parseCsv(csvContent))
  IN EmailsToCheck(validRows) \cup PhonesToCheck(validRows) # {}

BatchValidationResult(csvContent, db) ==
  LET rows == parseCsv(csvContent)
      validRows == ValidRows(rows)
      existing == PreviewExisting(db, validRows)
  IN [totalRows |-> Len(rows),
      validRows |-> validRows,
      invalidRows |-> InvalidRows(rows),
      duplicateEmails |-> MergeStored(findDuplicateEmails(validRows), validRows,
                                      "email", ExistingEmails(existing)),
      duplicatePhones |-> MergeStored(findDuplicatePhones(validRows), validRows,
                                      "telefono", ExistingPhones(existing))]

\* variant: the preview stores the contact of every valid row
PreviewImport_saves(r) ==
  /\ pc[r] # "off"
  /\ reply = NoReply
  /\ reply' = Reply("previewImport", r, "", BatchValidationResult(csv[r], contacts))
  /\ contacts' = contacts \o
       [k \in DOMAIN ValidRows(parseCsv(csv[r])) |->
          LET d == ValidRows(parseCsv(csv[r]))[k].data
          IN Contact(d.nombre, d.apellido, d.email, d.telefono)]
  /\ UNCHANGED <<importBatches, importLogEntries, pc, csv, parsed, importBatch,
                 locals, tx, result, faults>>

\* previewImport(csv[r]) answers with its report
PreviewImport(r) ==
  /\ pc[r] # "off"
  /\ reply = NoReply
  /\ reply' = Reply("previewImport", r, "", BatchValidationResult(csv[r], contacts))
  /\ UNCHANGED <<store, pc, csv, parsed, importBatch, locals, tx, result, faults>>

\* the select of checkDatabaseDuplicates throws and previewImport rethrows
PreviewImportFails(r) ==
  /\ pc[r] # "off"
  /\ reply = NoReply
  /\ PreviewSelects(csv[r])
  /\ reply' = Reply("previewImport", r, "store error", <<>>)
  /\ UNCHANGED <<store, pc, csv, parsed, importBatch, locals, tx, result, faults>>

\* the caller takes the answer
Deliver ==
  /\ reply # NoReply
  /\ reply' = NoReply
  /\ UNCHANGED <<store, pc, csv, parsed, importBatch, locals, tx, result, faults>>

\* ------------------------------------------------------------------ text of the export
COMMA == ","
NL == "\n"

\* Array.prototype.join
RECURSIVE Join(_, _)
Join(parts, sep) ==
  IF parts = <<>> THEN <<>>
  ELSE IF Len(parts) = 1 THEN parts[1]
  ELSE parts[1] \o sep \o Join(Tail(parts), sep)

\* String.prototype.split('\n')
RECURSIVE SplitNL(_)
SplitNL(text) ==
  IF \A k \in DOMAIN text : text[k] # NL THEN <<text>>
  ELSE LET at == CHOOSE k \in DOMAIN text :
                   text[k] = NL /\ \A m \in 1..(k - 1) : text[m] # NL
       IN <<SubSeq(text, 1, at - 1)>> \o SplitNL(SubSeq(text, at + 1, Len(text)))

\* value.replace(/"/g, '""')
RECURSIVE DoubleQuotes(_)
DoubleQuotes(value) ==
  IF value = <<>> THEN <<>>
  ELSE (IF Head(value) = QT THEN <<QT, QT>> ELSE <<Head(value)>>)
       \o DoubleQuotes(Tail(value))

\* variant: the value is wrapped, its quote characters left single
escapeCsvValue_wrap(value) ==
  IF Includes(value, COMMA) \/ Includes(value, QT) \/ Includes(value, NL)
  THEN <<QT>> \o value \o <<QT>>
  ELSE value

escapeCsvValue(value) ==
  IF Includes(value, COMMA) \/ Includes(value, QT) \/ Includes(value, NL)
  THEN <<QT>> \o DoubleQuotes(value) \o <<QT>>
  ELSE value

\* a message that is given as its text
TextMessage(t) == [kind |-> "text", field |-> "", value |-> Null, errors |-> t]

\* the string an error_message column holds
MessageText(msg) ==
  CASE msg.kind = "null" -> <<>>
    [] msg.kind = "validation" ->
         <<"Validation failed:", SP>>
         \o Join([k \in DOMAIN msg.errors |-> <<msg.errors[k]>>], <<COMMA, SP>>)
    [] msg.kind = "duplicate" ->
         <<"Duplicate", SP, msg.field, ":", SP>>
         \o (IF msg.value.tag = "str" THEN msg.value.v ELSE <<msg.value.tag>>)
    [] msg.kind = "exception" -> <<"store error">>
    [] OTHER -> msg.errors

\* raw_data texts that no JSON.stringify of a row produces
InvalidJson == [text |-> "invalid json string"]
JsonNull == [text |-> "null"]

\* JSON.parse: an object, the value null, or a SyntaxError
JSONparse(raw) ==
  IF "json" \in DOMAIN raw THEN [outcome |-> "object", obj |-> raw.json]
  ELSE IF raw = JsonNull THEN [outcome |-> "null", obj |-> EmptyObject]
  ELSE [outcome |-> "throws", obj |-> EmptyObject]

\* rawData[c] || ''
FieldOrEmpty(obj, c) == IF c \in DOMAIN obj THEN obj[c] ELSE <<>>

\* ------------------------------------------------------------------ read handlers
\* rows of a select in ascending row_number, rows of equal number in store order
RECURSIVE SortByRow(_)
SortByRow(entries) ==
  IF entries = <<>> THEN <<>>
  ELSE LET m == CHOOSE k \in DOMAIN entries :
                  \A j \in DOMAIN entries :
                    \/ entries[k].row_number < entries[j].row_number
                    \/ entries[k].row_number = entries[j].row_number /\ k <= j
       IN <<entries[m]>>
          \o SortByRow(SubSeq(entries, 1, m - 1) \o SubSeq(entries, m + 1, Len(entries)))

\* .limit(10) of getImportStatus
ErrorLimit == 10

\* the ids a caller asks for: every batch of the store and one that is not there
BatchIds == 1..(Len(importBatches) + 1)

ErrorEntries(b) == SelectSeq(EntriesOf(b), LAMBDA e : e.status = "error")

\* a select with a limit and no order: any ErrorLimit of the rows (all of
\* them when there are fewer), given here in store order
LimitChoices(n) ==
  {S \in SUBSET (1..n) : Cardinality(S) = Min(n, ErrorLimit)}

Limited(rows, S) ==
  LET keep == SelectSeq(Indices(Len(rows)), LAMBDA k : k \in S)
  IN [j \in DOMAIN keep |-> rows[keep[j]]]

\* batch.error_log as an element of the errors list
BatchError(batch) ==
  [kind |-> "error_log", field |-> "", value |-> Null, errors |-> batch.error_log.v]

\* lines 46-54: the non-null messages, the batch-level text put in front
StatusErrors(batch, rows) ==
  LET msgs == [k \in DOMAIN rows |-> rows[k].error_message]
      errors == SelectSeq(msgs, LAMBDA m : m.kind # "null")
  IN IF batch.error_log.tag = "str" /\ batch.error_log.v # <<>>
     THEN <<BatchError(batch)>> \o errors
     ELSE errors

\* variant: the processed count is taken from the batch's counters
ImportProgress_counters(batch, rows) ==
  [batchId |-> batch.id, status |-> batch.status,
   totalRecords |-> batch.total_records,
   processedRecords |-> batch.successful_records + batch.failed_records,
   successfulRecords |-> batch.successful_records,
   failedRecords |-> batch.failed_records,
   errors |-> StatusErrors(batch, rows)]

ImportProgress(batch, rows) ==
  [batchId |-> batch.id, status |-> batch.status,
   totalRecords |-> batch.total_records,
   processedRecords |-> Len(EntriesOf(batch.id)),
   successfulRecords |-> batch.successful_records,
   failedRecords |-> batch.failed_records,
   errors |-> StatusErrors(batch, rows)]

ReadFrame == UNCHANGED <<store, pc, csv, parsed, importBatch, locals, tx, result, faults>>

\* variant: the placeholder answer, a pending batch for every id
GetImportStatus_stub(batchId) ==
  /\ reply = NoReply
  /\ reply' = Reply("getImportStatus", batchId, "",
                    [batchId |-> batchId, status |-> "pending", totalRecords |-> 0,
                     processedRecords |-> 0, successfulRecords |-> 0,
                     failedRecords |-> 0, errors |-> <<>>])
  /\ ReadFrame

GetImportStatus(batchId) ==
  /\ reply = NoReply
  /\ IF batchId \notin DOMAIN importBatches
     THEN reply' = Reply("getImportStatus", batchId, "", Null)
     ELSE \E S \in LimitChoices(Len(ErrorEntries(batchId))) :
            reply' = Reply("getImportStatus", batchId, "",
                           ImportProgress(importBatches[batchId],
                                          Limited(ErrorEntries(batchId), S)))
  /\ ReadFrame

\* variant: the entries in the order the store holds them
GetImportLog_unsorted(batchId) ==
  /\ reply = NoReply
  /\ reply' = Reply("getImportLog", batchId, "", EntriesOf(batchId))
  /\ ReadFrame

\* the entries of the batch in ascending row number
GetImportLog(batchId) ==
  /\ reply = NoReply
  /\ reply' = Reply("getImportLog", batchId, "", SortByRow(EntriesOf(batchId)))
  /\ ReadFrame

\* lines 34-43 of downloadImportLog
SummaryLines(batch) ==
  << <<"Reporte de Importacion - ", batch.filename>>,
     <<"Fecha: ", "date">>,
     <<"Total de registros: ", ToString(batch.total_records)>>,
     <<"Exitosos: ", ToString(batch.successful_records)>>,
     <<"Fallidos: ", ToString(batch.failed_records)>>,
     <<"Estado: ", batch.status>>,
     <<>>,
     <<"Fila", COMMA, "Estado", COMMA, "Mensaje de Error", COMMA, "Nombre",
       COMMA, "Apellido", COMMA, "Email", COMMA, "Telefono">> >>

\* lines 46-79: the data line of one entry
CsvRow(entry) ==
  LET rawData == JSONparse(entry.raw_data).obj
  IN Join(<< <<ToString(entry.row_number)>>,
             escapeCsvValue(IF entry.status = "success"
                            THEN <<"Exitoso">> ELSE <<"Error">>),
             escapeCsvValue(MessageText(entry.error_message)),
             escapeCsvValue(FieldOrEmpty(rawData, cNombre)),
             escapeCsvValue(FieldOrEmpty(rawData, cApellido)),
             escapeCsvValue(FieldOrEmpty(rawData, cEmail)),
             escapeCsvValue(FieldOrEmpty(rawData, cTelefono)) >>,
          <<COMMA>>)

\* reading a property of null throws a TypeError
RowThrows(entry) == JSONparse(entry.raw_data).outcome = "null"

DownloadImportLog(batchId) ==
  /\ reply = NoReply
  /\ LET logEntries == SortByRow(EntriesOf(batchId))
     IN reply' =
          IF batchId \notin DOMAIN importBatches
          THEN Reply("downloadImportLog", batchId, "not found", <<>>)
          ELSE IF \E k \in DOMAIN logEntries : RowThrows(logEntries[k])
          THEN Reply("downloadImportLog", batchId, "TypeError", <<>>)
          ELSE Reply("downloadImportLog", batchId, "",
                     Join(SummaryLines(importBatches[batchId])
                          \o [k \in DOMAIN logEntries |-> CsvRow(logEntries[k])],
                          <<NL>>))
  /\ ReadFrame

ReadOps == {"getImportStatus", "getImportLog", "downloadImportLog"}

\* a select of the call throws and the handler rethrows
ReadFails(op, batchId) ==
  /\ reply = NoReply
  /\ reply' = Reply(op, batchId, "store error", <<>>)
  /\ ReadFrame

Reads ==
  \/ \E b \in BatchIds : GetImportStatus(b)
  \/ \E b \in BatchIds : GetImportLog(b)
  \/ \E b \in BatchIds : DownloadImportLog(b)
  \/ \E op \in ReadOps, b \in BatchIds : ReadFails(op, b)
  \/ Deliver

\* ------------------------------------------------------------------ all operations on one file
\* largest number of lines after the header line in this specification
MaxOpsRows == 2

lUpperEmail == << <<"Eva">>, <<"Paz">>, <<"A@x">>, <<>> >>
OpsLines == {lValid, lUpperEmail, lInvalid}

OpsContents ==
  {<<>>} \cup {<<hStandard>> \o ls : ls \in SeqsUpTo(OpsLines, MaxOpsRows)}

\* the store before the call: empty, or one contact entered earlier with an
\* address written in upper case
OpsStores ==
  { <<>>, << Contact(<<"Zed">>, <<"Old">>, Str(<<"A@x">>), Str(<<"999">>)) >> }

InitOps ==
  /\ contacts \in OpsStores
  /\ importBatches = <<>>
  /\ importLogEntries = <<>>
  /\ \E c \in OpsContents : csv = [r \in Runs |-> IF r = 1 THEN c ELSE <<>>]
  /\ pc = [r \in Runs |-> IF r = 1 THEN "start" ELSE "off"]
  /\ InitRun

\* one startImport run; previews of its file and reads of the store come in
\* between its steps, each answer taken before the next step
NextOps ==
  \/ \E r \in Runs : reply = NoReply /\ StartReject(r)
  \/ \E r \in Runs : reply = NoReply /\ StartCreate(r)
  \/ \E r \in Runs : reply = NoReply /\ StartFault(r)
  \/ \E r \in Runs : reply = NoReply /\ ProcessRow(r)
  \/ \E r \in Runs, s \in Statements : reply = NoReply /\ ProcessRowCaught(r, s)
  \/ \E r \in Runs, s \in Statements : reply = NoReply /\ ProcessRowThrows(r, s)
  \/ \E r \in Runs : reply = NoReply /\ CommitChunk(r)
  \/ \E r \in Runs : reply = NoReply /\ CommitFails(r)
  \/ \E r \in Runs : reply = NoReply /\ Finalize(r)
  \/ \E r \in Runs : reply = NoReply /\ FinalizeFails(r)
  \/ \E r \in Runs : PreviewImport(r)
  \/ \E r \in Runs : PreviewImportFails(r)
  \/ Reads

SpecOps == InitOps /\ [][NextOps]_vars

\* the file of run r has two data rows, both valid, whose emails are equal
\* when letter case is ignored
TwoRowsOneAddress(r) ==
  LET rows == ImportDataRows(ImportLines(csv[r]))
      hd == ImportHeader(ImportLines(csv[r]))
      d1 == ProcessedData(RowData(hd, ImportValues(rows[1])))
      d2 == ProcessedData(RowData(hd, ImportValues(rows[2])))
  IN /\ Len(ImportLines(csv[r])) = 3
     /\ csvRowSchema(d1) = <<>> /\ csvRowSchema(d2) = <<>>
     /\ d1.email.tag = "str" /\ d2.email.tag = "str"
     /\ ToLower(d1.email.v) = ToLower(d2.email.v)

FirstAddress(r) ==
  LET ls == ImportLines(csv[r])
  IN ToLower(ProcessedData(RowData(ImportHeader(ls), ImportValues(ls[2]))).email.v)

\* no committed contact has the address, letter case ignored
AddressNotStored(r) ==
  \A k \in DOMAIN contacts :
    contacts[k].email.tag = "str" => ToLower(contacts[k].email.v) # FirstAddress(r)

\* the preview of such a file reports one email group holding rows 1 and 2
PreviewGroupsBoth(r) ==
  (reply'.op = "previewImport" /\ reply'.ok /\ reply = NoReply) =>
    /\ Len(reply'.body.duplicateEmails) = 1
    /\ reply'.body.duplicateEmails[1].rowNumbers = <<1, 2>>

\* the run inserted row 1 and stands at row 2: the step inserts nothing and
\* logs a duplicate-email error for row 2
SecondRowFails(r) ==
  (RowStep(r) /\ RowIndex(r) = 2 /\ faults' = faults /\ Len(txContacts[r]) = 1) =>
    /\ txContacts'[r] = txContacts[r]
    /\ Len(txLog'[r]) = Len(txLog[r]) + 1
    /\ txLog'[r][Len(txLog'[r])].row_number = 2
    /\ txLog'[r][Len(txLog'[r])].status = "error"
    /\ txLog'[r][Len(txLog'[r])].error_message.kind = "duplicate"
    /\ txLog'[r][Len(txLog'[r])].error_message.field = "email"

\* C11: for a file of two valid rows whose emails are equal when letter case
\* is ignored and a store without that address, previewImport reports one
\* email group with rows 1 and 2, and startImport inserts row 1 and fails
\* row 2 with a duplicate-email entry.
C11_SameAddressBothHandlers ==
  [][\A r \in Runs :
       (pc[r] # "off" /\ TwoRowsOneAddress(r) /\ AddressNotStored(r)) =>
         PreviewGroupsBoth(r) /\ SecondRowFails(r)
    ]_vars

\* the part of C11 that is about previewImport alone
C11_PreviewPart ==
  [][\A r \in Runs :
       (pc[r] # "off" /\ TwoRowsOneAddress(r) /\ AddressNotStored(r)) =>
         PreviewGroupsBoth(r)
    ]_vars

\* the step is a previewImport call answering, with a report or an error
PreviewStep == reply = NoReply /\ reply'.op = "previewImport"

\* C12: a previewImport call, whether it returns a report or throws, leaves
\* the contacts, the import batches and the log entries as they were, the
\* committed ones and the ones pending in an open transaction.
C12_PreviewLeavesStore ==
  [][PreviewStep =>
       /\ contacts' = contacts
       /\ importBatches' = importBatches
       /\ importLogEntries' = importLogEntries
       /\ txContacts' = txContacts
       /\ txLog' = txLog
    ]_vars

\* a preview that found valid rows and a stored duplicate answered while the
\* store held a contact, a batch and a pending log entry
C12_Witness ==
  /\ reply.op = "previewImport" /\ reply.ok
  /\ Len(reply.body.validRows) > 0
  /\ Len(reply.body.duplicateEmails) > 0
  /\ contacts # <<>>
  /\ importBatches # <<>>
  /\ txLog[1] # <<>>

\* ------------------------------------------------------------------ two runs
\* largest number of lines after the header line in each of the two files
MaxPairRows == 1

PairLines == {lValid, lSamePhone}

PairContents ==
  {<<>>} \cup {<<hStandard>> \o ls : ls \in SeqsUpTo(PairLines, MaxPairRows)}

\* the two startImport calls of this specification
PairRuns == {1, 2}

InitPair ==
  /\ contacts \in InitialStores
  /\ importBatches = <<>>
  /\ importLogEntries = <<>>
  /\ \E c1, c2 \in PairContents :
       csv = [r \in Runs |-> IF r = 1 THEN c1 ELSE IF r = 2 THEN c2 ELSE <<>>]
  /\ pc = [r \in Runs |-> IF r \in PairRuns THEN "start" ELSE "off"]
  /\ InitRun

\* run r has created its batch and has not returned or thrown yet
InFlight(r) == pc[r] \in {"chunk", "final"}

NoneInFlight == \A q \in Runs : ~InFlight(q)

\* the calls are made one after another: no call starts while one is in flight
NextSeq ==
  \E r \in Runs :
    \/ StartReject(r)
    \/ NoneInFlight /\ StartCreate(r)
    \/ StartFault(r)
    \/ ProcessRow(r)
    \/ \E s \in Statements : ProcessRowCaught(r, s)
    \/ \E s \in Statements : ProcessRowThrows(r, s)
    \/ CommitChunk(r)
    \/ CommitFails(r)
    \/ Finalize(r)
    \/ FinalizeFails(r)

SpecSeq == InitPair /\ [][NextSeq]_vars

\* the calls are made at any time
SpecConc == InitPair /\ [][Next]_vars

\* no two of the contacts cs share a non-null email or a non-null phone
NoSharedValue(cs) ==
  \A j, k \in DOMAIN cs :
    j # k =>
      /\ cs[j].email.tag = "str" => cs[j].email # cs[k].email
      /\ cs[j].telefono.tag = "str" => cs[j].telefono # cs[k].telefono

\* C13: when startImport runs are executed one after another on a store in
\* which no two contacts share a non-null email or a non-null phone, no two
\* contacts of the store, and no two of the store plus the writes pending in
\* the running transaction, ever share one.
C13_SequentialRunsKeepUnique ==
  /\ NoSharedValue(contacts)
  /\ \A r \in Runs : NoSharedValue(contacts \o txContacts[r])

\* both runs got the same one-row file and have returned: the first inserted
\* the contact, the second logged the row as a duplicate
C13_Witness ==
  /\ pc[1] = "done" /\ pc[2] = "done"
  /\ csv[1] = <<hStandard, lValid>> /\ csv[2] = csv[1]
  /\ Len(contacts) = 1
  /\ Len(importLogEntries) = 2
  /\ \E j, k \in DOMAIN importLogEntries :
       /\ importLogEntries[j].status = "success"
       /\ importLogEntries[k].error_message.kind = "duplicate"
       /\ importLogEntries[j].import_batch_id # importLogEntries[k].import_batch_id

\* contact c carries the email or the phone of row data d
SharesValue(c, d) ==
  \/ d.email.tag = "str" /\ c.email = d.email
  \/ d.telefono.tag = "str" /\ c.telefono = d.telefono

\* the step is run r committing the chunk it has finished
CommitStep(r) ==
  /\ pc[r] = "chunk" /\ i[r] = Len(CurrentChunk(r))
  /\ chunkIndex'[r] = chunkIndex[r] + 1

\* C14: nothing excludes two runs from inserting the same email or phone: a
\* valid row is inserted whenever neither the committed contacts nor the
\* run's own pending writes carry its email or phone, whatever another run
\* has pending, and a commit installs every pending contact whatever the
\* store holds by then.
C14_NoExclusionAcrossRuns ==
  [][\A r \in Runs :
       /\ (/\ RowStep(r) /\ faults' = faults
           /\ csvRowSchema(ValidDataOf(r, CurrentRow(r))) = <<>>
           /\ \A k \in DOMAIN Visible(r) :
                ~SharesValue(Visible(r)[k], ValidDataOf(r, CurrentRow(r))))
          => txContacts'[r] =
               Append(txContacts[r], ContactOf(ValidDataOf(r, CurrentRow(r))))
       /\ CommitStep(r) => contacts' = contacts \o txContacts[r]
    ]_vars

\* both runs were given the same row, both returned 'completed' with one
\* successful record, and the store holds the contact twice
C14_Witness ==
  /\ pc[1] = "done" /\ pc[2] = "done"
  /\ result[1].status = "completed" /\ result[2].status = "completed"
  /\ result[1].successful_records = 1 /\ result[2].successful_records = 1
  /\ \E j, k \in DOMAIN contacts :
       /\ j # k
       /\ contacts[j] = ContactOf(ValidDataOf(1, lValid))
       /\ contacts[k] = contacts[j]
       /\ contacts[j].email.tag = "str" /\ contacts[j].telefono.tag = "str"

\* the pending insert the step adds for run r is the contact of the row the
\* run stands at, a row that passes csvRowSchema and whose email and phone no
\* contact the run can see carries
InsertOfCheckedRow(r) ==
  LET d == ValidDataOf(r, CurrentRow(r))
  IN /\ RowStep(r)
     /\ csvRowSchema(d) = <<>>
     /\ \A k \in DOMAIN Visible(r) : ~SharesValue(Visible(r)[k], d)
     /\ txContacts'[r] = Append(txContacts[r], ContactOf(d))

\* C15: no step of previewImport, startImport, getImportStatus, getImportLog
\* or downloadImportLog changes or removes a committed contact; the contacts
\* a step adds to the store are the pending inserts of one run, and every
\* pending insert is the contact of a row that passed validation and the
\* duplicate check.
C15_ContactsOnlyInserted ==
  [][/\ Len(contacts') >= Len(contacts)
     /\ SubSeq(contacts', 1, Len(contacts)) = contacts
     /\ reply' # reply => (contacts' = contacts /\ txContacts' = txContacts)
     /\ contacts' # contacts =>
          \E r \in Runs : CommitStep(r) /\ contacts' = contacts \o txContacts[r]
     /\ \A r \in Runs :
          (txContacts'[r] # txContacts[r] /\ txContacts'[r] # <<>>) =>
            InsertOfCheckedRow(r)
    ]_vars

\* the store held a contact before the run, the run inserted one more and
\* an export of its batch has answered
C15_Witness ==
  /\ Len(contacts) = 2
  /\ contacts[1] \in {c[1] : c \in OpsStores \ {<<>>}}
  /\ contacts[2] = ContactOf(ValidDataOf(1, lValid))
  /\ pc[1] = "done"
  /\ reply.op = "downloadImportLog" /\ reply.ok

\* ------------------------------------------------------------------ reads of a stored log
\* largest number of log entries in the stores of this specification, the
\* two stores of ErrorLimit and more entries apart
MaxLogEntries == 3

ReadBatches ==
  << [id |-> 1, filename |-> "file.csv", total_records |-> 3,
      successful_records |-> 0, failed_records |-> 0,
      status |-> "processing", error_log |-> Null, completed_at |-> "null"],
     [id |-> 2, filename |-> "file.csv", total_records |-> ErrorLimit + 1,
      successful_records |-> 0, failed_records |-> ErrorLimit + 1,
      status |-> "failed", error_log |-> Str(<<1>>), completed_at |-> "date"] >>

oAna == (cNombre :> <<"Ana">>) @@ (cApellido :> <<"Paz">>) @@ (cEmail :> <<"a@x">>)
\* values with a quote character inside, as ImportValues leaves them
oQuoted ==
  (cNombre :> <<"Juan", COMMA, SP, "Jr.">>)
  @@ (cApellido :> <<"Paz", SP, QT, "El Grande", QT>>)

\* log entries as the store may hold them, no two for the same row of a batch
EntryPool ==
  { LogEntry(1, 1, "success", NoMessage, JSONstringify(oAna)),
    LogEntry(1, 2, "error",
             ValidationMessage(<<"Nombre es obligatorio", "Email invalido">>),
             JSONstringify(oQuoted)),
    LogEntry(1, 3, "error", TextMessage(<<"JSON invalido">>), InvalidJson),
    LogEntry(2, 1, "error", ExceptionMessage, JSONstringify(EmptyObject)),
    LogEntry(2, 2, "error", TextMessage(<<"Datos incompletos">>), JsonNull) }

\* n 'error' entries of batch 2, rows 1..n
ManyErrors(n) ==
  [k \in 1..n |->
     LogEntry(2, k, "error", TextMessage(<<"Error in row", SP, ToString(k)>>),
              JSONstringify(EmptyObject))]

\* the entries in any insertion order
StoredLogs ==
  {l \in SeqsUpTo(EntryPool, MaxLogEntries) :
     \A j, k \in DOMAIN l : j # k => l[j] # l[k]}
  \cup {ManyErrors(ErrorLimit), ManyErrors(ErrorLimit + 1)}

\* no run is in flight; the store holds two batches and some of the entries
InitRead ==
  /\ contacts \in InitialStores
  /\ importBatches = ReadBatches
  /\ importLogEntries \in StoredLogs
  /\ csv = [r \in Runs |-> <<>>]
  /\ pc = [r \in Runs |-> "off"]
  /\ InitRun

SpecRead == InitRead /\ [][Reads]_vars

\* the answer is what call op gave for a batch that exists, no select failing
AnswerFor(op) ==
  /\ reply.op = op
  /\ reply.arg \in DOMAIN importBatches
  /\ reply.err # "store error"

\* C16: for every existing batch the errors list of getImportStatus has at
\* most ErrorLimit entries, the batch-level error_log first when there is
\* one, also when the batch has an error_log and ErrorLimit or more 'error'
\* log entries.
C16_AtMostTenErrors ==
  AnswerFor("getImportStatus") =>
    LET batch == importBatches[reply.arg]
        errors == reply.body.errors
    IN /\ Len(errors) <= ErrorLimit
       /\ batch.error_log.tag = "str" =>
            (errors # <<>> /\ errors[1].kind = "error_log")
       /\ \A k \in DOMAIN errors : k > 1 => errors[k].kind # "error_log"

RowNumbers(entries) == [k \in DOMAIN entries |-> entries[k].row_number]

StrictlyIncreasing(ns) == \A k \in 1..(Len(ns) - 1) : ns[k] < ns[k + 1]

UnknownBatchStep ==
  /\ reply = NoReply
  /\ reply'.op \in ReadOps
  /\ reply'.arg \notin DOMAIN importBatches
  /\ reply'.err # "store error"

\* C18: for a batch id that matches no ImportBatch, getImportStatus returns
\* null, downloadImportLog throws the not-found error and getImportLog
\* returns the empty list; none of the three changes the store.
C18_UnknownBatch ==
  [][UnknownBatchStep =>
       /\ reply'.op = "getImportStatus" => (reply'.ok /\ reply'.body = Null)
       /\ reply'.op = "downloadImportLog" => reply'.err = "not found"
       /\ reply'.op = "getImportLog" => (reply'.ok /\ reply'.body = <<>>)
       /\ contacts' = contacts
       /\ importBatches' = importBatches
       /\ importLogEntries' = importLogEntries
    ]_vars

\* the store holds batches, contacts and three log entries, and
\* getImportStatus has answered null for an id past the last batch
C18_Witness ==
  /\ reply.op = "getImportStatus" /\ reply.ok /\ reply.body = Null
  /\ reply.arg = Len(importBatches) + 1
  /\ Len(importLogEntries) = 3
  /\ contacts # <<>>

\* raw_data is the JSON text of an object
IsFieldRecord(raw) == "json" \in DOMAIN raw

\* the data line of an entry as the export is described: row number, outcome
\* label, message and the four field values, each empty when raw_data holds
\* no field record
DataLine(entry) ==
  LET Value(c) == IF IsFieldRecord(entry.raw_data) /\ c \in DOMAIN entry.raw_data.json
                  THEN entry.raw_data.json[c] ELSE <<>>
  IN Join(<< <<ToString(entry.row_number)>>,
             IF entry.status = "success" THEN <<"Exitoso">> ELSE <<"Error">>,
             escapeCsvValue(MessageText(entry.error_message)),
             escapeCsvValue(Value(cNombre)), escapeCsvValue(Value(cApellido)),
             escapeCsvValue(Value(cEmail)), escapeCsvValue(Value(cTelefono)) >>,
          <<COMMA>>)

\* the row numbers of the batch's entries, ascending
AscendingRows(b) ==
  LET rows == {importLogEntries[k].row_number :
                 k \in {j \in DOMAIN importLogEntries :
                          importLogEntries[j].import_batch_id = b}}
  IN [k \in 1..Cardinality(rows) |->
        CHOOSE n \in rows : Cardinality({m \in rows : m < n}) = k - 1]

EntryOfRow(b, n) ==
  CHOOSE e \in {importLogEntries[k] : k \in DOMAIN importLogEntries} :
    e.import_batch_id = b /\ e.row_number = n

\* C19: for every existing batch downloadImportLog returns the summary
\* lines, a blank line and the column header, then one data line per log
\* entry of the batch in ascending row number; the content of an entry never
\* makes the export fail, and an entry whose raw_data holds no field record
\* gets four empty field values.
C19_ExportOneLinePerEntry ==
  AnswerFor("downloadImportLog") =>
    /\ reply.ok
    /\ LET lines == SplitNL(reply.body)
           rows == AscendingRows(reply.arg)
       IN /\ Len(lines) = Len(SummaryLines(importBatches[reply.arg])) + Len(rows)
          /\ \A k \in DOMAIN SummaryLines(importBatches[reply.arg]) :
               lines[k] = SummaryLines(importBatches[reply.arg])[k]
          /\ \A k \in DOMAIN rows :
               lines[Len(SummaryLines(importBatches[reply.arg])) + k]
                 = DataLine(EntryOfRow(reply.arg, rows[k]))

\* the same with the stores left out in which a raw_data is the JSON text null
C19_ExportOfParsedOrBroken ==
  (\A k \in DOMAIN importLogEntries : importLogEntries[k].raw_data # JsonNull)
    => C19_ExportOneLinePerEntry

\* ------------------------------------------------------------------ escapeCsvValue on its own
\* largest number of characters of a field value
MaxValueLen == 3

ValueChars == {COMMA, QT, NL, SP, "a"}
FieldValues == SeqsUpTo(ValueChars, MaxValueLen)

\* escapeCsvValue(value) is evaluated
EscapeValue(value) ==
  /\ reply = NoReply
  /\ reply' = Reply("escapeCsvValue", value, "", escapeCsvValue(value))
  /\ ReadFrame

InitEscape ==
  /\ contacts = <<>>
  /\ importBatches = <<>>
  /\ importLogEntries = <<>>
  /\ csv = [r \in Runs |-> <<>>]
  /\ pc = [r \in Runs |-> "off"]
  /\ InitRun

NextEscape ==
  \/ \E value \in FieldValues : EscapeValue(value)
  \/ Deliver

SpecEscape == InitEscape /\ [][NextEscape]_vars

\* two quote characters in a row become one
RECURSIVE HalveQuotes(_)
HalveQuotes(text) ==
  IF Len(text) >= 2 /\ text[1] = QT /\ text[2] = QT
  THEN <<QT>> \o HalveQuotes(Tail(Tail(text)))
  ELSE IF text = <<>> THEN <<>>
  ELSE <<Head(text)>> \o HalveQuotes(Tail(text))

\* the escaping undone: the outer quote characters stripped, the doubled ones
\* halved; a text that was not wrapped is left as it is
Unescape(text) ==
  IF Len(text) >= 2 /\ Head(text) = QT /\ text[Len(text)] = QT
  THEN HalveQuotes(SubSeq(text, 2, Len(text) - 1))
  ELSE text

CountQuotes(text) == Cardinality({k \in DOMAIN text : text[k] = QT})

\* C20: escapeCsvValue leaves a value without comma, quote character and
\* newline unchanged; any other value is wrapped in quote characters with
\* every quote character inside doubled; undoing the escaping gives the
\* value back.
C20_EscapeRoundTrip ==
  reply.op = "escapeCsvValue" =>
    LET value == reply.arg
        out == reply.body
        special == \E k \in DOMAIN value : value[k] \in {COMMA, QT, NL}
    IN /\ ~special => out = value
       /\ special =>
            /\ Head(out) = QT /\ out[Len(out)] = QT
            /\ Len(out) = Len(value) + 2 + CountQuotes(value)
            /\ CountQuotes(out) = 2 + 2 * CountQuotes(value)
            /\ SelectSeq(out, LAMBDA t : t # QT) = SelectSeq(value, LAMBDA t : t # QT)
       /\ Unescape(out) = value

\* a value that begins with a quote character and holds a newline and a comma
C20_Witness ==
  /\ reply.op = "escapeCsvValue"
  /\ reply.arg = <<QT, NL, COMMA>>
  /\ reply.body = <<QT, QT, QT, NL, COMMA, QT>>

\* ------------------------------------------------------------------ the preview report
\* largest number of lines after the header line in a previewed file
MaxPreviewRows == 3

\* a row without nombre that carries the email and the phone of lValid
lNoName == << <<>>, <<"Paz">>, <<"a@x">>, <<"555">> >>

PreviewContents ==
  {<<>>}
  \cup {<<hStandard>> \o ls :
          ls \in SeqsUpTo({lValid, lUpperEmail, lSamePhone, lNoName}, MaxPreviewRows)}

\* previews of one file on a store that no run changes
InitPreview ==
  /\ contacts \in InitialStores \cup OpsStores
  /\ importBatches = <<>>
  /\ importLogEntries = <<>>
  /\ \E c \in PreviewContents : csv = [r \in Runs |-> IF r = 1 THEN c ELSE <<>>]
  /\ pc = [r \in Runs |-> IF r = 1 THEN "start" ELSE "off"]
  /\ InitRun

NextPreview ==
  \/ \E r \in Runs : PreviewImport(r)
  \/ \E r \in Runs : PreviewImportFails(r)
  \/ Deliver

SpecPreview == InitPreview /\ [][NextPreview]_vars

\* a previewImport report is held by its caller
Previewed == reply.op = "previewImport" /\ reply.ok

\* the numbers of the valid rows of the report whose lower-cased email
\* (f = "email") or phone (f = "telefono") is key, ascending
RowsCarrying(f, key) ==
  LET v == reply.body.validRows
      hit == SelectSeq(v, LAMBDA row :
               IF f = "email"
               THEN row.data.email.tag = "str" /\ ToLower(row.data.email.v) = key
               ELSE row.data.telefono.tag = "str" /\ row.data.telefono.v = key)
  IN [j \in DOMAIN hit |-> hit[j].rowNumber]

\* a stored contact carries key, the email compared without letter case
StoreCarries(f, key) ==
  \E k \in DOMAIN contacts :
    IF f = "email"
    THEN contacts[k].email.tag = "str" /\ ToLower(contacts[k].email.v) = key
    ELSE contacts[k].telefono.tag = "str" /\ contacts[k].telefono.v = key

GroupsOf(f) ==
  IF f = "email" THEN reply.body.duplicateEmails ELSE reply.body.duplicatePhones

\* the keys that valid rows of the report carry
KeysOf(f) ==
  LET v == reply.body.validRows
  IN IF f = "email"
     THEN {ToLower(v[k].data.email.v) :
             k \in {m \in DOMAIN v : v[m].data.email.tag = "str"}}
     ELSE {v[k].data.telefono.v :
             k \in {m \in DOMAIN v : v[m].data.telefono.tag = "str"}}

\* C21: the batch scan of previewImport groups the valid rows by lower-cased
\* email and by exact phone: a key that two or more valid rows share has one
\* group, which lists all their row numbers in ascending order; a key of
\* exactly one valid row and of no stored contact has no group; the rows of
\* every group are valid rows carrying the group's key.
C21_BatchScanGroups ==
  Previewed =>
    \A f \in {"email", "telefono"} :
      /\ \A key \in KeysOf(f) :
           /\ Len(RowsCarrying(f, key)) >= 2 =>
                /\ Cardinality({j \in DOMAIN GroupsOf(f) : GroupsOf(f)[j].key = key}) = 1
                /\ \A j \in DOMAIN GroupsOf(f) :
                     GroupsOf(f)[j].key = key =>
                       GroupsOf(f)[j].rowNumbers = RowsCarrying(f, key)
           /\ (Len(RowsCarrying(f, key)) = 1 /\ ~StoreCarries(f, key)) =>
                \A j \in DOMAIN GroupsOf(f) : GroupsOf(f)[j].key # key
      /\ \A j \in DOMAIN GroupsOf(f) :
           /\ GroupsOf(f)[j].key \in KeysOf(f)
           /\ \A n \in DOMAIN GroupsOf(f)[j].rowNumbers :
                Includes(RowsCarrying(f, GroupsOf(f)[j].key), GroupsOf(f)[j].rowNumbers[n])

\* rows 1 and 3 carry one address in different letter case and one phone,
\* row 2 carries both and has no nombre: the groups list rows 1 and 3
C21_Witness ==
  /\ Previewed
  /\ contacts = <<>>
  /\ Len(reply.body.invalidRows) = 1
  /\ reply.body.invalidRows[1].rowNumber = 2
  /\ reply.body.invalidRows[1].data[cEmail] = <<"a@x">>
  /\ Len(reply.body.duplicateEmails) = 1
  /\ reply.body.duplicateEmails[1].rowNumbers = <<1, 3>>
  /\ reply.body.validRows[1].data.email # reply.body.validRows[2].data.email
  /\ Len(reply.body.duplicatePhones) = 0

\* the groups of field f list row n under key
Listed(f, key, n) ==
  \E j \in DOMAIN GroupsOf(f) :
    GroupsOf(f)[j].key = key /\ Includes(GroupsOf(f)[j].rowNumbers, n)

\* C22: every valid row whose email, letter case ignored, or whose phone is
\* that of a stored contact is listed by previewImport in a group of that
\* value, also when no other row of the file carries the value.
C22_StoreMatchReported ==
  Previewed =>
    \A k \in DOMAIN reply.body.validRows :
      LET row == reply.body.validRows[k]
      IN /\ (row.data.email.tag = "str"
             /\ StoreCarries("email", ToLower(row.data.email.v)))
            => Listed("email", ToLower(row.data.email.v), row.rowNumber)
         /\ (row.data.telefono.tag = "str"
             /\ StoreCarries("telefono", row.data.telefono.v))
            => Listed("telefono", row.data.telefono.v, row.rowNumber)

\* the same for the stores whose emails are written in lower case
C22_LowerCaseStore ==
  (\A k \in DOMAIN contacts :
     contacts[k].email.tag = "str" => ToLower(contacts[k].email.v) = contacts[k].email.v)
    => C22_StoreMatchReported

\* ------------------------------------------------------- chunk by chunk
\* the row numbers of the entries of batch b, in the order of the sequence
RowsLogged(entries, b) ==
  LET own == SelectSeq(entries, LAMBDA e : e.import_batch_id = b)
  IN [j \in DOMAIN own |-> own[j].row_number]

FromTo(a, b) == [j \in 1..(IF b < a THEN 0 ELSE b - a + 1) |-> a + j - 1]

\* ceil(n / CHUNK_SIZE), as the least count of chunks that covers n rows
CeilChunks(n) == CHOOSE c \in 0..n : c * CHUNK_SIZE >= n /\ (c = 0 \/ (c - 1) * CHUNK_SIZE < n)

\* C23: a run over N data rows handles the rows in ascending row number, one
\* chunk transaction at a time: while chunk k is open every earlier chunk is
\* committed in full and the transaction holds rows CHUNK_SIZE*k+1 onwards
\* and nothing of a later chunk; a commit installs exactly rows
\* CHUNK_SIZE*k+1 to min(CHUNK_SIZE*(k+1), N); after ceil(N/CHUNK_SIZE)
\* commits the loop ends.
C23_ChunkByChunk ==
  [][\A r \in Runs :
       LET N == Len(dataRows[r])
           k == chunkIndex[r]
           done == RowsLogged(importLogEntries, importBatch[r])
           open == RowsLogged(txLog[r], importBatch[r])
       IN /\ pc[r] = "chunk" =>
               /\ k < CeilChunks(N)
               /\ done = FromTo(1, CHUNK_SIZE * k)
               /\ open = FromTo(CHUNK_SIZE * k + 1, CHUNK_SIZE * k + i[r])
               /\ CHUNK_SIZE * k + i[r] <= Min(CHUNK_SIZE * (k + 1), N)
          /\ (pc[r] = "chunk" /\ i'[r] = i[r] + 1) =>
               /\ RowsLogged(txLog'[r], importBatch[r]) = Append(open, CHUNK_SIZE * k + i[r] + 1)
               /\ CurrentRow(r) = dataRows[r][CHUNK_SIZE * k + i[r] + 1]
               /\ importLogEntries' = importLogEntries
          /\ (pc[r] = "chunk" /\ chunkIndex'[r] = k + 1) =>
               /\ RowsLogged(importLogEntries', importBatch[r])
                    = FromTo(1, Min(CHUNK_SIZE * (k + 1), N))
               /\ open = FromTo(CHUNK_SIZE * k + 1, Min(CHUNK_SIZE * (k + 1), N))
               /\ txLog'[r] = <<>>
               /\ pc'[r] = IF k + 1 = CeilChunks(N) THEN "final" ELSE "chunk"
          /\ pc[r] = "final" => k = CeilChunks(N) /\ done = FromTo(1, N) /\ open = <<>>
    ]_vars

\* a run over three rows has committed its two chunks, the second one short
C23_Witness ==
  /\ pc[1] = "final"
  /\ Len(dataRows[1]) = CHUNK_SIZE + 1
  /\ chunkIndex[1] = 2
  /\ RowsLogged(importLogEntries, importBatch[1]) = FromTo(1, CHUNK_SIZE + 1)

\* ------------------------------------------------ the duplicate message
\* the step is run r logging the row it stands at as a duplicate
RejectsDuplicate(r) ==
  /\ AtRow(r)
  /\ Len(txLog'[r]) = Len(txLog[r]) + 1
  /\ txLog'[r][Len(txLog'[r])].error_message.kind = "duplicate"

\* a contact the transaction of run r sees carries the row's email
EmailCollides(r) ==
  LET d == ValidDataOf(r, CurrentRow(r))
  IN d.email.tag = "str" /\ \E k \in DOMAIN View(r) : View(r)[k].email = d.email

\* C24: the message of a row rejected for a store match names the field that
\* collided with that field's value in the row: the email when a contact has
\* the row's email, the phone when the collision is on the phone only, also
\* when neither the row nor the matched contact has an email.
C24_MessageNamesCollision ==
  [][\A r \in Runs :
       RejectsDuplicate(r) =>
         LET d == ValidDataOf(r, CurrentRow(r))
             msg == txLog'[r][Len(txLog'[r])].error_message
         IN IF EmailCollides(r)
            THEN msg.field = "email" /\ msg.value = d.email
            ELSE msg.field = "telefono" /\ msg.value = d.telefono
                 /\ d.telefono.tag = "str"
    ]_vars

\* the same for rows that carry an email or meet contacts that all carry one
C24_WithEmailPresent ==
  [][\A r \in Runs :
       (/\ RejectsDuplicate(r)
        /\ LET d == ValidDataOf(r, CurrentRow(r))
           IN \/ d.email.tag = "str"
              \/ \A k \in DOMAIN ExistingContacts(View(r), d) :
                   ExistingContacts(View(r), d)[k].email.tag = "str")
       => LET d == ValidDataOf(r, CurrentRow(r))
              msg == txLog'[r][Len(txLog'[r])].error_message
          IN IF EmailCollides(r)
             THEN msg.field = "email" /\ msg.value = d.email
             ELSE msg.field = "telefono" /\ msg.value = d.telefono
    ]_vars

\* ------------------------------------------------------ the row rule
\* cells of one data line: empty, blanks only, padded with blanks, malformed
RuleNombres == {<<>>, <<SP>>, <<SP, "Ana">>}
RuleApellidos == {<<SP>>, <<"Paz">>}
RuleEmails == {<<>>, <<SP>>, <<"a@x", SP>>, <<"bad">>}
RuleTelefonos == {<<>>, <<SP>>, <<"x", SP>>}
RuleLines ==
  {<<n, a, e, t>> : n \in RuleNombres, a \in RuleApellidos,
                    e \in RuleEmails, t \in RuleTelefonos}

\* files of one data line under a header in lower or in upper case, and the
\* empty file
RuleContents ==
  {<<>>} \cup {<<h, l>> : h \in {hStandard, hUpper}, l \in RuleLines}

InitRule ==
  /\ contacts = <<>>
  /\ importBatches = <<>>
  /\ importLogEntries = <<>>
  /\ \E c \in RuleContents : csv = [r \in Runs |-> IF r = 1 THEN c ELSE <<>>]
  /\ pc = [r \in Runs |-> IF r = 1 THEN "start" ELSE "off"]
  /\ InitRun

SpecRule == InitRule /\ [][NextOps]_vars

\* the cell of the data line of run 1 under column c, trimmed; the column is
\* found by its name with blanks and letter case set aside
RuleField(c) ==
  LET hd == csv[1][1]
      line == csv[1][2]
      at == {k \in DOMAIN hd : ToLower(Trim(hd[k])) = c /\ k <= Len(line)}
  IN IF at = {} THEN <<>> ELSE Trim(line[CHOOSE k \in at : \A m \in at : m <= k])

RuleAccepts ==
  /\ RuleField(cNombre) # <<>>
  /\ RuleField(cApellido) # <<>>
  /\ RuleField(cEmail) = <<>> \/ IsEmail(RuleField(cEmail))

\* a blank optional field is no value, the others are the trimmed text
RuleOptional(c) == IF RuleField(c) = <<>> THEN Null ELSE Str(RuleField(c))

PreviewKeepsRule ==
  (Previewed /\ Len(csv[1]) = 2) =>
    /\ Len(reply.body.validRows) = 1 <=> RuleAccepts
    /\ Len(reply.body.validRows) + Len(reply.body.invalidRows) = 1
    /\ Len(reply.body.validRows) = 1 =>
         /\ reply.body.validRows[1].data.email = RuleOptional(cEmail)
         /\ reply.body.validRows[1].data.telefono = RuleOptional(cTelefono)

ImportKeepsRule ==
  (pc[1] = "done" /\ faults = 0 /\ Len(csv[1]) = 2) =>
    /\ Len(importLogEntries) = 1
    /\ importLogEntries[1].status = "success" <=> RuleAccepts
    /\ importLogEntries[1].status = "error" =>
         importLogEntries[1].error_message.kind = "validation" /\ contacts = <<>>
    /\ importLogEntries[1].status = "success" =>
         /\ Len(contacts) = 1
         /\ contacts[1].email = RuleOptional(cEmail)
         /\ contacts[1].telefono = RuleOptional(cTelefono)

\* C25: previewImport and startImport accept a data row exactly when its
\* trimmed nombre and apellido are non-empty and its trimmed email is empty
\* or a well-formed address, whatever the phone; a blank email or phone of an
\* accepted row is null in the preview's data and in the inserted contact.
C25_SameRowRule == PreviewKeepsRule /\ ImportKeepsRule

\* the same for files whose header is written in lower case
C25_LowerCaseHeader ==
  (Len(csv[1]) = 2 /\ csv[1][1] = hStandard) => C25_SameRowRule

\* ------------------------------------------------ polling a run in flight
\* the step is getImportStatus answering for an existing batch
StatusStep ==
  /\ reply = NoReply
  /\ reply'.op = "getImportStatus"
  /\ reply'.ok
  /\ reply'.arg \in DOMAIN importBatches

\* C26: getImportStatus changes nothing and answers with processedRecords
\* equal to the number of committed log entries of the batch at that moment,
\* which is at most totalRecords; the committed entries of a batch never
\* become fewer, so a later poll never answers less than an earlier one.
C26_PollInFlight ==
  [][/\ StatusStep =>
          /\ reply'.body.processedRecords
               = Len(RowsLogged(importLogEntries, reply'.arg))
          /\ reply'.body.processedRecords <= reply'.body.totalRecords
          /\ reply'.body.totalRecords = importBatches[reply'.arg].total_records
          /\ UNCHANGED <<store, pc, csv, parsed, importBatch, locals, tx, result, faults>>
     /\ \A b \in DOMAIN importBatches :
          /\ Len(RowsLogged(importLogEntries', b)) >= Len(RowsLogged(importLogEntries, b))
          /\ importBatches'[b].total_records = importBatches[b].total_records
    ]_vars

\* a poll between the commit of the only chunk and the final update: the
\* batch is still 'processing' and both rows are counted
C26_Witness ==
  /\ reply.op = "getImportStatus" /\ reply.ok
  /\ pc[1] = "final"
  /\ reply.arg = importBatch[1]
  /\ reply.body.status = "processing"
  /\ reply.body.processedRecords = 2
  /\ reply.body.successfulRecords = 0

\* ------------------------------------------- counters, log and contacts
\* the number of entries of batch b with status st
CountLogged(b, st) ==
  Len(SelectSeq(importLogEntries,
                LAMBDA e : e.import_batch_id = b /\ e.status = st))

\* the contacts that were not in the store before the run
AddedContacts ==
  SelectSeq(contacts, LAMBDA c : \A st \in InitialStores : ~Includes(st, c))

\* the step is run r writing an 'error' entry for the row it stands at
LogsError(r) ==
  /\ AtRow(r)
  /\ Len(txLog'[r]) = Len(txLog[r]) + 1
  /\ txLog'[r][Len(txLog'[r])].status = "error"

\* C27: a batch closed by startImport has successful_records equal to the
\* number of its 'success' entries and to the number of contacts the run
\* added, and failed_records equal to the number of its 'error' entries; a
\* row that gets an 'error' entry adds no contact, also when a log insert
\* fails right after the row's contact insert.
C27_CountersMatchLog ==
  [][\A r \in Runs :
       /\ (pc[r] = "final" /\ pc'[r] = "done") =>
            LET b == importBatches'[importBatch[r]]
            IN /\ b.successful_records = CountLogged(b.id, "success")
               /\ b.successful_records = Len(AddedContacts)
               /\ b.failed_records = CountLogged(b.id, "error")
       /\ LogsError(r) => txContacts'[r] = txContacts[r]
    ]_vars

\* the same for runs in which no store statement fails
C27_WithoutFaults ==
  [][\A r \in Runs :
       faults' = 0 =>
         /\ (pc[r] = "final" /\ pc'[r] = "done") =>
              LET b == importBatches'[importBatch[r]]
              IN /\ b.successful_records = CountLogged(b.id, "success")
                 /\ b.successful_records = Len(AddedContacts)
                 /\ b.failed_records = CountLogged(b.id, "error")
         /\ LogsError(r) => txContacts'[r] = txContacts[r]
    ]_vars

\* ------------------------------------------------ the end of an invocation
\* run r has ended, by returning or by throwing
Ended(r) == pc[r] \in {"done", "thrown"}

\* C28: once a startImport invocation that created its batch has ended, by
\* returning or by throwing, the batch is 'completed' or 'failed' and has a
\* completion time; it is not left 'processing'.
C28_EndedRunClosesBatch ==
  \A r \in Runs :
    (Ended(r) /\ importBatch[r] # 0) =>
      /\ Terminal(importBatches[importBatch[r]])
      /\ importBatches[importBatch[r]].completed_at # "null"

\* the same for the invocations that return
C28_ReturnedRunClosesBatch ==
  \A r \in Runs :
    (pc[r] = "done" /\ importBatch[r] # 0) =>
      /\ Terminal(importBatches[importBatch[r]])
      /\ importBatches[importBatch[r]].completed_at # "null"

\* ------------------------------------------- preview against ingestion
\* the preview of run r's file against the committed store lists row n in a
\* group of duplicate emails or duplicate phones
PreviewLists(r, n) ==
  LET report == BatchValidationResult(csv[r], contacts)
  IN \/ \E j \in DOMAIN report.duplicateEmails :
          Includes(report.duplicateEmails[j].rowNumbers, n)
     \/ \E j \in DOMAIN report.duplicatePhones :
          Includes(report.duplicatePhones[j].rowNumbers, n)

\* C29: a row that startImport rejects with a Duplicate message is listed in
\* a duplicateEmails or duplicatePhones group by previewImport run on the
\* same file against the store as it was before the run.  The rows of the
\* first chunk are taken, for which the committed store is still the prior
\* one.
C29_RejectedRowsPreviewed ==
  [][\A r \in Runs :
       (RejectsDuplicate(r) /\ chunkIndex[r] = 0) => PreviewLists(r, RowIndex(r))
    ]_vars

\* the same for stores whose emails are written in lower case
C29_LowerCaseStore ==
  [][\A r \in Runs :
       (/\ RejectsDuplicate(r) /\ chunkIndex[r] = 0
        /\ \A k \in DOMAIN contacts :
             contacts[k].email.tag = "str"
               => ToLower(contacts[k].email.v) = contacts[k].email.v)
       => PreviewLists(r, RowIndex(r))
    ]_vars

\* ------------------------------------------- the same rows in both handlers
\* largest number of lines after the header line in this specification
MaxClassRows == 3

\* a row whose email is written with two quote characters in front
lQuotedEmail == << <<"Dan">>, <<"Paz">>, <<QT, QT, "b@x">>, <<>> >>
ClassLines == {lValid, lInvalid, lBlank, lQuotedEmail}

\* the empty file, and files of up to MaxClassRows lines under a header in
\* lower case or, with at most one line, in upper case
ClassContents ==
  {<<>>}
  \cup {<<hStandard>> \o ls : ls \in SeqsUpTo(ClassLines, MaxClassRows)}
  \cup {<<hUpper>> \o ls : ls \in SeqsUpTo(ClassLines, 1)}

InitClass ==
  /\ contacts \in InitialStores
  /\ importBatches = <<>>
  /\ importLogEntries = <<>>
  /\ \E c \in ClassContents : csv = [r \in Runs |-> IF r = 1 THEN c ELSE <<>>]
  /\ pc = [r \in Runs |-> IF r = 1 THEN "start" ELSE "off"]
  /\ InitRun

SpecClass == InitClass /\ [][Next]_vars

\* the row numbers of previewImport's validRows for the file of run r
PreviewValidNumbers(r) ==
  LET v == ValidRows(parseCsv(csv[r]))
  IN {v[j].rowNumber : j \in DOMAIN v}

\* the row numbers that run r logged without a 'Validation failed' message
ImportValidNumbers(r) ==
  {importLogEntries[k].row_number : k \in
     {m \in DOMAIN importLogEntries :
        /\ importLogEntries[m].import_batch_id = importBatch[r]
        /\ importLogEntries[m].error_message.kind # "validation"}}

\* C30: on the same file the row numbers of previewImport's validRows are
\* the row numbers that startImport does not log with 'Validation failed',
\* also with a header in upper case, quote characters in a field and blank
\* lines between data rows.  Taken at the end of a run in which no store
\* statement failed.
C30_SameClassification ==
  \A r \in Runs :
    (pc[r] = "done" /\ faults = 0) =>
      PreviewValidNumbers(r) = ImportValidNumbers(r)

\* the cells of a file's data lines hold no quote character, no data line
\* is blank and the header is written in lower case
PlainFile(c) ==
  /\ c # <<>>
  /\ c[1] = hStandard
  /\ \A k \in 2..Len(c) :
       /\ ~IsBlankLine(c[k])
       /\ \A j \in DOMAIN c[k] : ~Includes(c[k][j], QT)

\* the same for plain files
C30_PlainFiles ==
  \A r \in Runs :
    (pc[r] = "done" /\ faults = 0 /\ PlainFile(csv[r])) =>
      PreviewValidNumbers(r) = ImportValidNumbers(r)

\* each of the three cases on its own breaks the equality
C30_UpperCaseOnly ==
  \A r \in Runs :
    (pc[r] = "done" /\ faults = 0 /\ csv[r] # <<>> /\ csv[r][1] = hUpper
     /\ Len(csv[r]) = 2 /\ csv[r][2] \in {lValid, lInvalid})
      => PreviewValidNumbers(r) = ImportValidNumbers(r)

C30_QuotesOnly ==
  \A r \in Runs :
    (pc[r] = "done" /\ faults = 0 /\ csv[r] # <<>> /\ csv[r][1] = hStandard
     /\ \A k \in 2..Len(csv[r]) : ~IsBlankLine(csv[r][k]))
      => PreviewValidNumbers(r) = ImportValidNumbers(r)

C30_BlankLinesOnly ==
  \A r \in Runs :
    (pc[r] = "done" /\ faults = 0 /\ csv[r] # <<>> /\ csv[r][1] = hStandard
     /\ \A k \in 2..Len(csv[r]) : csv[r][k] # lQuotedEmail)
      => PreviewValidNumbers(r) = ImportValidNumbers(r)
====
